---- MODULE Spec2Model ----
(***************************************************************************)
(* DocuMind backend: the ingestion pipeline of backend/main.py (upload,    *)
(* upload_folder, process_file_with_progress, log_upload) and the agent    *)
(* query pipeline of backend/agents (analyze_query, search_documents,      *)
(* generate_answer, the two orchestrators).                                *)
(*                                                                         *)
(* Ingestion is modelled as the event loop runs it: a handler is cut at    *)
(* its update_progress calls, one action being the broadcast of one        *)
(* progress event followed by the synchronous code up to the next          *)
(* broadcast. Spec serves one HTTP request at a time; SpecAnalyze applies  *)
(* analyze_query to bounded queries; SpecQuery runs one process_query.     *)
(***************************************************************************)
EXTENDS Integers, Sequences, FiniteSets, TLC

VARIABLES
    store,                    \* the chunks of the "documents" collection
    log,                      \* the JSON array of LOG_FILE_PATH
    log_decodable,            \* FALSE: the file's bytes are no JSON document
    LANGCHAIN_AVAILABLE,      \* main.py 33-38: which splitter the build has
    current_embedding_model,  \* main.py 105
    pc,                       \* position of the running handler
    caller,                   \* "upload" | "folder" | "none"
    cur,                      \* the file process_file_with_progress works on
    loc,                      \* locals of process_file_with_progress
    batch,                    \* locals of upload_folder
    events,                   \* progress events broadcast during this request
    trace,                    \* the events of the current process_file call
    pre,                      \* store and log when that call was entered
    call,                     \* outcome of that call
    resp,                     \* the HTTP response of the last request
    qs,                       \* the query pipeline (SpecQuery, SpecAnalyze)
    client,                   \* the identity of the client's "documents" collection
    collection,               \* main.py 102: the handle bound when the module loads
    req,                      \* the last request that is not an upload
    enc,                      \* one safe_encode call (SpecEncode)
    chat,                     \* the ChatHistoryManager's files and callers
    manager,                  \* the ConnectionManager and one broadcast
    runs                      \* the uploads in progress side by side (SpecUploads)

vars == <<store, log, LANGCHAIN_AVAILABLE, current_embedding_model, pc, caller,
          cur, loc, batch, events, trace, pre, call, resp, qs, client,
          collection, req, log_decodable, enc, chat, manager, runs>>

\* what the handlers of Spec and of the query pipeline leave alone
adminVars == <<client, collection, req, log_decodable>>
auxVars == <<enc, chat, manager, runs>>

\* ------------------------------------------------------------ bounds
MaxBatch == 2      \* files in one upload_folder request
MaxChunks == 2     \* chunks the LangChain splitter may return

\* ------------------------------------------------------ program constants
max_retries == 3

\* ------------------------------------------------------------ inputs
\* A filename is its "."-separated segments: <<"b", "PDF">> is "b.PDF".
\* File content, as far as the parsers see it, is its "\n\n"-separated
\* paragraphs: "w" one with words, "_" a whitespace-only one, "x" bytes no
\* parser can decode.
File(filename, content) == [filename |-> filename, content |-> content]

Files ==
    { File(<<"a", "txt">>, <<"w">>),
      File(<<"b", "PDF">>, <<"w">>),
      File(<<"a", "txt">>, <<"w", "_", "w">>),
      File(<<"notes">>, <<"w", "_", "w">>),
      File(<<"a", "txt">>, <<"_">>),
      File(<<"b", "PDF">>, <<"x">>) }

NoFile == [filename |-> <<>>, content |-> <<>>]

\* ------------------------------------------------------------ helpers
\* str.lower() on the segments that occur
Lower(s) ==
    CASE s = "PDF" -> "pdf"
      [] s = "TXT" -> "txt"
      [] OTHER -> s

\* filename.split(".")[-1].lower()
Ext(filename) == Lower(filename[Len(filename)])

TokenCode(t) == CASE t = "w" -> 1 [] t = "_" -> 2 [] OTHER -> 3

\* hashlib.md5(f.read()).hexdigest(): a digest of the bytes alone
RECURSIVE Digest(_, _)
Digest(content, h) ==
    IF content = <<>> THEN h
    ELSE Digest(Tail(content), (h * 31 + TokenCode(Head(content))) % 65536)

get_file_hash(content) == Digest(content, 7)

Readable(content) == \A i \in 1..Len(content) : content[i] # "x"

extract_file_metadata(content, filename) ==
    LET ext == Ext(filename) IN
    IF ext = "pdf"
    THEN IF Readable(content)
         THEN [title |-> <<"Untitled">>, author |-> "Unknown"]
         ELSE [title |-> <<"Unknown">>, author |-> "Unknown"]
    ELSE IF ext = "docx"
    THEN IF Readable(content)
         THEN [title |-> <<"Document">>, author |-> "Unknown"]
         ELSE [title |-> <<"Unknown">>, author |-> "Unknown"]
    ELSE [title |-> filename, author |-> "Unknown"]

SupportedExt == {"pdf", "docx", "csv", "txt"}

\* text.strip() is empty
Blank(text) == \A i \in 1..Len(text) : text[i] = "_"

\* the fallback splitter: [p.strip() for p in text.split('\n\n') if p.strip()]
FallbackSplit(text) == SelectSeq(text, LAMBDA p : p # "_")

\* the where clause names a key the chunks do not carry the hash under
existsByHash_wrongKey(s, h) == \E c \in s : c.id = h

existsByHash(s, h) == \E c \in s : c.file_hash = h

Dim(m) == IF m = "BAAI/bge-m3" THEN 1024 ELSE 384

\* safe_encode: outs[k] tells whether model.encode succeeds at attempt k
RECURSIVE safe_encode_from(_, _)
safe_encode_from(outs, attempt) ==
    IF attempt > max_retries THEN [ok |-> FALSE, calls |-> attempt - 1]
    ELSE IF outs[attempt] THEN [ok |-> TRUE, calls |-> attempt]
    ELSE IF attempt < max_retries THEN safe_encode_from(outs, attempt + 1)
    ELSE [ok |-> FALSE, calls |-> attempt]

safe_encode(outs) == safe_encode_from(outs, 1)

\* uuid.uuid4(): n identifiers no chunk of the collection has
RECURSIVE FreshIds(_, _, _)
FreshIds(used, n, from) ==
    IF n = 0 THEN <<>>
    ELSE IF from \in used THEN FreshIds(used, n, from + 1)
    ELSE <<from>> \o FreshIds(used, n - 1, from + 1)

Ev(stage, progress) == [stage |-> stage, progress |-> progress]

\* int((i + 1) / total_files * k), i counted from 1 here
Pct(i, total, k) == (i * k) \div total

\* ------------------------------------------------------------ idle values
NoMeta == [title |-> <<>>, author |-> "Unknown"]
NoLoc == [file_hash |-> 0, metadata |-> NoMeta, text |-> <<>>, chunks |-> <<>>,
          dim |-> 0, metadatas |-> <<>>]
NoError == [kind |-> "none", filename |-> <<>>]
NoResult == [filename |-> <<>>, chunks_stored |-> 0, embedding_dimension |-> 0,
             metadata |-> NoMeta]
NoCall == [status |-> "none", error |-> NoError, result |-> NoResult]
NoBatch == [files |-> <<>>, i |-> 0, results |-> <<>>, errors |-> <<>>]
NoResp == [kind |-> "none", status |-> "none", body |-> <<>>]
NoPre == [store |-> {}, log |-> <<>>]
IdleQuery == [pc |-> "off"]
NoReq == [kind |-> "none", arg |-> <<>>, status |-> "none", ids |-> 0,
          files |-> <<>>]
NoEnc == [pc |-> "off"]
NoChat == [pc |-> "off"]
NoManager == [pc |-> "off"]
NoRuns == <<>>

\* client.get_or_create_collection("documents") when the module loads (102):
\* the handle names the collection the client has
AdminIdle ==
    /\ client = 1
    /\ collection = 1
    /\ req = NoReq
    /\ log_decodable = TRUE

AuxIdle ==
    /\ enc = NoEnc
    /\ chat = NoChat
    /\ manager = NoManager
    /\ runs = NoRuns

\* ------------------------------------------------------------ update_progress
\* The broadcast of one event; Spec records what is broadcast.
update_progress(evs, stage, progress) == Append(evs, Ev(stage, progress))

\* A stage of process_file_with_progress announces itself.
Announce(stage, progress) ==
    /\ events' = update_progress(events, stage, progress)
    /\ trace' = update_progress(trace, stage, progress)

\* process_file_with_progress raises: upload's handler logs and goes on to
\* broadcast the error (489); upload_folder's appends to errors and goes on to
\* broadcast it (624-627).
Raise(err) ==
    /\ call' = [status |-> "raised", error |-> err, result |-> NoResult]
    /\ loc' = NoLoc
    /\ IF caller = "upload"
       THEN pc' = "u_error" /\ UNCHANGED batch
       ELSE /\ pc' = "f_error"
            /\ batch' = [batch EXCEPT !.errors =
                            Append(@, [filename |-> cur.filename, error |-> err])]

Err(kind) == [kind |-> kind, filename |-> cur.filename]

\* process_file_with_progress is entered for file f
EnterCall(f) ==
    /\ cur' = f
    /\ loc' = NoLoc
    /\ trace' = <<>>
    /\ pre' = [store |-> store, log |-> log]
    /\ call' = [status |-> "running", error |-> NoError, result |-> NoResult]
    /\ pc' = "validating"

\* ------------------------------------------------------------ log_upload
\* lines 321-327: log_data is what json.load reads; a file that is missing
\* and one that raises JSONDecodeError both give []
load_log(decodable, lg) == IF decodable THEN lg ELSE <<>>

\* an entry of the same filename is written over
log_upload_upsert(log_data, filename, chunks_count, metadata, file_hash) ==
    Append(SelectSeq(log_data, LAMBDA e : e.filename # filename),
           [filename |-> filename, chunks_stored |-> chunks_count,
            metadata |-> metadata, file_hash |-> file_hash])

\* lines 329-338: the append and the json.dump of the whole list
log_upload(log_data, filename, chunks_count, metadata, file_hash) ==
    Append(log_data, [filename |-> filename, chunks_stored |-> chunks_count,
                      metadata |-> metadata, file_hash |-> file_hash])

\* one identifier is used for every chunk of the file
collection_add_sameId(s, ids, dim, documents, metadatas) ==
    s \cup { [id |-> ids[1], dim |-> dim, document |-> documents[k],
              filename |-> metadatas[k].filename,
              file_hash |-> metadatas[k].file_hash,
              title |-> metadatas[k].title,
              author |-> metadatas[k].author] : k \in 1..Len(documents) }

\* collection.add(ids, embeddings, documents, metadatas)
collection_add(s, ids, dim, documents, metadatas) ==
    s \cup { [id |-> ids[k], dim |-> dim, document |-> documents[k],
              filename |-> metadatas[k].filename,
              file_hash |-> metadatas[k].file_hash,
              title |-> metadatas[k].title,
              author |-> metadatas[k].author] : k \in 1..Len(documents) }

StoreIds(s) == { c.id : c \in s }

\* ------------------------------------------------ process_file_with_progress
\* the metadata stage is left out
NextStage_skipMetadata(stage) ==
    CASE stage = "validating" -> "parsing"
      [] stage = "parsing" -> "chunking"
      [] stage = "chunking" -> "embedding"
      [] stage = "embedding" -> "preparing"
      [] stage = "preparing" -> "storing"
      [] stage = "storing" -> "complete"

\* the chunks are stored before they are embedded
NextStage_storeFirst(stage) ==
    CASE stage = "validating" -> "metadata"
      [] stage = "metadata" -> "parsing"
      [] stage = "parsing" -> "chunking"
      [] stage = "chunking" -> "preparing"
      [] stage = "preparing" -> "storing"
      [] stage = "storing" -> "embedding"
      [] stage = "embedding" -> "complete"

\* The stage whose update_progress call follows that of `stage`.
NextStage(stage) ==
    CASE stage = "validating" -> "metadata"
      [] stage = "metadata" -> "parsing"
      [] stage = "parsing" -> "chunking"
      [] stage = "chunking" -> "embedding"
      [] stage = "embedding" -> "preparing"
      [] stage = "preparing" -> "storing"
      [] stage = "storing" -> "complete"

Validating ==
    /\ pc = "validating"
    /\ Announce("validating", 10)
    /\ LET file_hash == get_file_hash(cur.content) IN
       IF existsByHash(store, file_hash)
       THEN Raise(Err("File already indexed"))
       ELSE /\ pc' = NextStage("validating")
            /\ loc' = [loc EXCEPT !.file_hash = file_hash]
            /\ UNCHANGED <<call, batch>>
    /\ UNCHANGED <<store, log, LANGCHAIN_AVAILABLE, current_embedding_model,
                   caller, cur, pre, resp, qs, adminVars, auxVars>>

Metadata ==
    /\ pc = "metadata"
    /\ Announce("metadata", 20)
    /\ loc' = [loc EXCEPT !.metadata =
                  extract_file_metadata(cur.content, cur.filename)]
    /\ pc' = NextStage("metadata")
    /\ UNCHANGED <<store, log, LANGCHAIN_AVAILABLE, current_embedding_model,
                   caller, cur, batch, pre, call, resp, qs, adminVars, auxVars>>

Parsing ==
    /\ pc = "parsing"
    /\ Announce("parsing", 30)
    /\ IF Ext(cur.filename) \notin SupportedExt
       THEN Raise(Err("Unsupported file type"))
       ELSE IF ~Readable(cur.content)
       THEN Raise(Err("parser error"))
       ELSE IF Blank(cur.content)
       THEN Raise(Err("No readable text found"))
       ELSE /\ pc' = NextStage("parsing")
            /\ loc' = [loc EXCEPT !.text = cur.content]
            /\ UNCHANGED <<call, batch>>
    /\ UNCHANGED <<store, log, LANGCHAIN_AVAILABLE, current_embedding_model,
                   caller, cur, pre, resp, qs, adminVars, auxVars>>

\* split_text_into_chunks: RecursiveCharacterTextSplitter is a library the
\* model does not look into, any list of up to MaxChunks chunks may come back.
SplitResults(text) ==
    IF LANGCHAIN_AVAILABLE
    THEN { [k \in 1..n |-> "w"] : n \in 0..MaxChunks }
    ELSE { FallbackSplit(text) }

Chunking ==
    /\ pc = "chunking"
    /\ Announce("chunking", 50)
    /\ \E chunks \in SplitResults(loc.text) :
         IF chunks = <<>>
         THEN Raise(Err("No chunks created"))
         ELSE /\ pc' = NextStage("chunking")
              /\ loc' = [loc EXCEPT !.chunks = chunks]
              /\ UNCHANGED <<call, batch>>
    /\ UNCHANGED <<store, log, LANGCHAIN_AVAILABLE, current_embedding_model,
                   caller, cur, pre, resp, qs, adminVars, auxVars>>

Embedding ==
    /\ pc = "embedding"
    /\ Announce("embedding", 70)
    /\ \E outs \in [1..max_retries -> BOOLEAN] :
         IF ~safe_encode(outs).ok
         THEN Raise(Err("Embedding failed after retries"))
         ELSE /\ pc' = NextStage("embedding")
              /\ loc' = [loc EXCEPT !.dim = Dim(current_embedding_model)]
              /\ UNCHANGED <<call, batch>>
    /\ UNCHANGED <<store, log, LANGCHAIN_AVAILABLE, current_embedding_model,
                   caller, cur, pre, resp, qs, adminVars, auxVars>>

Preparing ==
    /\ pc = "preparing"
    /\ Announce("preparing", 85)
    /\ loc' = [loc EXCEPT !.metadatas =
                  [k \in 1..Len(loc.chunks) |->
                      [filename |-> cur.filename, file_hash |-> loc.file_hash,
                       title |-> loc.metadata.title,
                       author |-> loc.metadata.author]]]
    /\ pc' = NextStage("preparing")
    /\ UNCHANGED <<store, log, LANGCHAIN_AVAILABLE, current_embedding_model,
                   caller, cur, batch, pre, call, resp, qs, adminVars, auxVars>>

Storing ==
    /\ pc = "storing"
    /\ Announce("storing", 95)
    /\ LET ids == FreshIds(StoreIds(store), Len(loc.chunks), 1) IN
       store' = collection_add(store, ids, loc.dim, loc.chunks, loc.metadatas)
    /\ pc' = NextStage("storing")
    /\ UNCHANGED <<log, LANGCHAIN_AVAILABLE, current_embedding_model, caller,
                   cur, loc, batch, pre, call, resp, qs, adminVars, auxVars>>

Complete ==
    /\ pc = "complete"
    /\ Announce("complete", 100)
    /\ log' = log_upload(load_log(log_decodable, log), cur.filename,
                         Len(loc.chunks), loc.metadata, loc.file_hash)
    /\ log_decodable' = TRUE
    /\ LET result == [filename |-> cur.filename,
                      chunks_stored |-> Len(loc.chunks),
                      embedding_dimension |-> loc.dim,
                      metadata |-> loc.metadata] IN
       /\ call' = [status |-> "ok", error |-> NoError, result |-> result]
       /\ IF caller = "upload"
          THEN /\ resp' = [kind |-> "upload", status |-> "success",
                           body |-> result]
               /\ pc' = "idle"
               /\ UNCHANGED batch
          ELSE /\ batch' = [batch EXCEPT !.results = Append(@, result)]
               /\ pc' = "f_finished"
               /\ UNCHANGED resp
    /\ loc' = NoLoc
    /\ UNCHANGED <<store, LANGCHAIN_AVAILABLE, current_embedding_model, caller,
                   cur, pre, qs, client, collection, req, auxVars>>

\* ------------------------------------------------------------ POST /upload
\* the request carries one of `files`
UploadOf(files) ==
    /\ pc = "idle"
    /\ \E f \in files : EnterCall(f)
    /\ caller' = "upload"
    /\ events' = <<>>
    /\ batch' = NoBatch
    /\ resp' = NoResp
    /\ UNCHANGED <<store, log, LANGCHAIN_AVAILABLE, current_embedding_model, qs,
                   adminVars, auxVars>>

UploadStart == UploadOf(Files)

UploadError ==
    /\ pc = "u_error"
    /\ events' = update_progress(events, "error", 0)
    /\ resp' = [kind |-> "upload", status |-> "http 500", body |-> call.error]
    /\ pc' = "idle"
    /\ UNCHANGED <<store, log, LANGCHAIN_AVAILABLE, current_embedding_model,
                   caller, cur, loc, batch, trace, pre, call, qs, adminVars, auxVars>>

\* ------------------------------------------------------ POST /upload-folder
BatchesOf(n) == [1..n -> Files]

FolderStart ==
    /\ pc = "idle"
    /\ \E n \in 0..MaxBatch : \E files \in BatchesOf(n) :
         /\ batch' = [files |-> files, i |-> 0, results |-> <<>>,
                      errors |-> <<>>]
         /\ pc' = IF n = 0 THEN "f_empty" ELSE "f_begin"
    /\ caller' = "folder"
    /\ events' = <<>>
    /\ trace' = <<>>
    /\ cur' = NoFile
    /\ loc' = NoLoc
    /\ pre' = NoPre
    /\ call' = NoCall
    /\ resp' = NoResp
    /\ UNCHANGED <<store, log, LANGCHAIN_AVAILABLE, current_embedding_model, qs,
                   adminVars, auxVars>>

FolderResponse(status, errors, error_count) ==
    [kind |-> "folder", status |-> status,
     body |-> [documents_processed |-> batch.results,
               errors |-> errors,
               processed_count |-> Len(batch.results),
               error_count |-> error_count,
               total_files |-> Len(batch.files)]]

FolderEmpty ==
    /\ pc = "f_empty"
    /\ events' = update_progress(events, "error", 0)
    /\ resp' = FolderResponse("failed",
                  <<[filename |-> <<"folder">>, error |-> "No files received"]>>, 1)
    /\ pc' = "idle"
    /\ UNCHANGED <<store, log, LANGCHAIN_AVAILABLE, current_embedding_model,
                   caller, cur, loc, batch, trace, pre, call, qs, adminVars, auxVars>>

FolderBegin ==
    /\ pc = "f_begin"
    /\ events' = update_progress(events, "saving", 0)
    /\ batch' = [batch EXCEPT !.i = 1]
    /\ pc' = "f_saving"
    /\ UNCHANGED <<store, log, LANGCHAIN_AVAILABLE, current_embedding_model,
                   caller, cur, loc, trace, pre, call, resp, qs, adminVars, auxVars>>

FolderSaving ==
    /\ pc = "f_saving"
    /\ events' = update_progress(events, "saving",
                                 Pct(batch.i, Len(batch.files), 20))
    /\ pc' = "f_processing"
    /\ UNCHANGED <<store, log, LANGCHAIN_AVAILABLE, current_embedding_model,
                   caller, cur, loc, batch, trace, pre, call, resp, qs, adminVars, auxVars>>

FolderProcessing ==
    /\ pc = "f_processing"
    /\ events' = update_progress(events, "processing",
                                 Pct(batch.i, Len(batch.files), 40))
    /\ EnterCall(batch.files[batch.i])
    /\ UNCHANGED <<store, log, LANGCHAIN_AVAILABLE, current_embedding_model,
                   caller, batch, resp, qs, adminVars, auxVars>>

\* the for loop goes to its next file, or ends
NextFile ==
    IF batch.i < Len(batch.files)
    THEN /\ batch' = [batch EXCEPT !.i = @ + 1]
         /\ pc' = "f_saving"
    ELSE /\ pc' = "f_final"
         /\ UNCHANGED batch

FolderFinished ==
    /\ pc = "f_finished"
    /\ events' = update_progress(events, "processing",
                                 Pct(batch.i, Len(batch.files), 85))
    /\ NextFile
    /\ UNCHANGED <<store, log, LANGCHAIN_AVAILABLE, current_embedding_model,
                   caller, cur, loc, trace, pre, call, resp, qs, adminVars, auxVars>>

\* the first failing file ends the loop
FolderError_break ==
    /\ pc = "f_error"
    /\ events' = update_progress(events, "error",
                                 Pct(batch.i, Len(batch.files), 100))
    /\ pc' = "f_final"
    /\ UNCHANGED <<store, log, LANGCHAIN_AVAILABLE, current_embedding_model,
                   caller, cur, loc, batch, trace, pre, call, resp, qs, adminVars, auxVars>>

FolderError ==
    /\ pc = "f_error"
    /\ events' = update_progress(events, "error",
                                 Pct(batch.i, Len(batch.files), 100))
    /\ NextFile
    /\ UNCHANGED <<store, log, LANGCHAIN_AVAILABLE, current_embedding_model,
                   caller, cur, loc, trace, pre, call, resp, qs, adminVars, auxVars>>

FolderFinal ==
    /\ pc = "f_final"
    /\ events' = update_progress(events, "complete", 100)
    /\ resp' = FolderResponse(IF batch.results # <<>> THEN "success" ELSE "failed",
                              batch.errors, Len(batch.errors))
    /\ pc' = "idle"
    /\ UNCHANGED <<store, log, LANGCHAIN_AVAILABLE, current_embedding_model,
                   caller, cur, loc, batch, trace, pre, call, qs, adminVars, auxVars>>

\* ------------------------------------------------------------ Spec
Init ==
    /\ store = {}
    /\ log = <<>>
    /\ LANGCHAIN_AVAILABLE \in BOOLEAN
    /\ current_embedding_model = "sentence-transformers/all-MiniLM-L6-v2"
    /\ pc = "idle"
    /\ caller = "none"
    /\ cur = NoFile
    /\ loc = NoLoc
    /\ batch = NoBatch
    /\ events = <<>>
    /\ trace = <<>>
    /\ pre = NoPre
    /\ call = NoCall
    /\ resp = NoResp
    /\ qs = IdleQuery
    /\ AdminIdle
    /\ AuxIdle

Next ==
    \/ UploadStart
    \/ Validating
    \/ Metadata
    \/ Parsing
    \/ Chunking
    \/ Embedding
    \/ Preparing
    \/ Storing
    \/ Complete
    \/ UploadError
    \/ FolderStart
    \/ FolderEmpty
    \/ FolderBegin
    \/ FolderSaving
    \/ FolderProcessing
    \/ FolderFinished
    \/ FolderError
    \/ FolderFinal

Spec == Init /\ [][Next]_vars

\* ------------------------------------------------------------ ingestion claims
HashStored(s, f) == \E c \in s : c.file_hash = get_file_hash(f.content)

Finished == call.status \in {"ok", "raised"}

\* C1: when the collection already holds a chunk with the hash of the uploaded
\* content, process_file_with_progress raises "File already indexed" right
\* after the validating stage, whatever the filename, and the collection and
\* the upload log are what they were when the call was entered.
C1_DuplicateRejected ==
    (call.status # "none" /\ HashStored(pre.store, cur)) =>
        /\ store = pre.store
        /\ Cardinality(store) = Cardinality(pre.store)
        /\ log = pre.log
        /\ call.status = "running" => trace = <<>>
        /\ Finished =>
             /\ call.status = "raised"
             /\ call.error = [kind |-> "File already indexed",
                              filename |-> cur.filename]
             /\ trace = <<Ev("validating", 10)>>

C1_Witness ==
    /\ call.status = "raised"
    /\ call.error.kind = "File already indexed"
    /\ \E c \in pre.store :
         /\ c.file_hash = get_file_hash(cur.content)
         /\ c.filename # cur.filename

IngestErrors ==
    {"File already indexed", "Unsupported file type", "parser error",
     "No readable text found", "No chunks created",
     "Embedding failed after retries"}

\* C2: a process_file_with_progress call that raises (duplicate hash,
\* unsupported extension, unreadable content, blank text, no chunks, embedding
\* failure) leaves the collection and the upload log exactly as they were when
\* it was entered.
C2_AllOrNothing ==
    call.status = "raised" =>
        /\ call.error.kind \in IngestErrors
        /\ store = pre.store
        /\ log = pre.log

C2_Witness ==
    /\ call.status = "raised"
    /\ call.error.kind = "Embedding failed after retries"
    /\ pre.store # {}
    /\ pre.log # <<>>
    /\ store = pre.store

StageEvents ==
    << Ev("validating", 10), Ev("metadata", 20), Ev("parsing", 30),
       Ev("chunking", 50), Ev("embedding", 70), Ev("preparing", 85),
       Ev("storing", 95), Ev("complete", 100) >>

C4_LogEntry ==
    /\ call.status = "ok" =>
         LET added == store \ pre.store
             e == log[Len(log)]
         IN  /\ Len(log) = Len(pre.log) + 1
             /\ SubSeq(log, 1, Len(pre.log)) = pre.log
             /\ e.filename = cur.filename
             /\ e.chunks_stored = Cardinality(added)
             /\ e.chunks_stored = call.result.chunks_stored
             /\ added # {}
             /\ \A c \in added : c.file_hash = e.file_hash
                                    /\ c.filename = e.filename
    /\ call.status \in {"running", "raised"} => log = pre.log

C4_Witness ==
    /\ call.status = "ok"
    /\ Len(pre.log) >= 1
    /\ log[Len(log)].chunks_stored = 2
    /\ Cardinality(store \ pre.store) = 2

RECURSIVE Pick(_, _, _)
\* the filenames of the files whose outcome o is `which`, in batch order
Pick(files, o, which) ==
    IF files = <<>> THEN <<>>
    ELSE (IF Head(o) = which THEN <<Head(files).filename>> ELSE <<>>)
         \o Pick(Tail(files), Tail(o), which)

Filenames_of(entries) == [k \in 1..Len(entries) |-> entries[k].filename]

C6_ProgressMonotonic ==
    caller = "folder" =>
        \A j \in 1..(Len(events) - 1) :
            events[j].progress <= events[j + 1].progress

\* ============================================================ query pipeline
\* Strings the code searches or joins are sequences of characters.

MaxFrags == 2      \* fragments a query of SpecAnalyze is put together from
MaxResults == 2    \* chunks one vector-store query returns

LowerChar(c) ==
    CASE c = "A" -> "a"
      [] c = "B" -> "b"
      [] c = "C" -> "c"
      [] c = "D" -> "d"
      [] c = "E" -> "e"
      [] c = "F" -> "f"
      [] c = "G" -> "g"
      [] c = "H" -> "h"
      [] c = "I" -> "i"
      [] c = "J" -> "j"
      [] c = "K" -> "k"
      [] c = "L" -> "l"
      [] c = "M" -> "m"
      [] c = "N" -> "n"
      [] c = "O" -> "o"
      [] c = "P" -> "p"
      [] c = "Q" -> "q"
      [] c = "R" -> "r"
      [] c = "S" -> "s"
      [] c = "T" -> "t"
      [] c = "U" -> "u"
      [] c = "V" -> "v"
      [] c = "W" -> "w"
      [] c = "X" -> "x"
      [] c = "Y" -> "y"
      [] c = "Z" -> "z"
      [] OTHER -> c

\* str.lower()
lower(s) == [i \in 1..Len(s) |-> LowerChar(s[i])]

\* kw in s, on strings
Contains(s, kw) ==
    \E i \in 1..(Len(s) - Len(kw) + 1) : SubSeq(s, i, i + Len(kw) - 1) = kw

\* any(word in s for word in words)
AnyIn(words, s) == \E k \in 1..Len(words) : Contains(s, words[k])

DefinitionWords == << <<"w", "h", "a", "t", " ", "i", "s">>, <<"d", "e", "f", "i", "n", "e">>, <<"d", "e", "f", "i", "n", "i", "t", "i", "o", "n">> >>
ProcessWords == << <<"h", "o", "w">>,
                  <<"p", "r", "o", "c", "e", "s", "s">>,
                  <<"s", "t", "e", "p", "s">>,
                  <<"m", "e", "t", "h", "o", "d">> >>
ComparisonWords == << <<"c", "o", "m", "p", "a", "r", "e">>,
                     <<"d", "i", "f", "f", "e", "r", "e", "n", "c", "e">>,
                     <<"v", "s">>,
                     <<"v", "e", "r", "s", "u", "s">> >>

\* the process keywords are looked for first
analyze_query_processFirst(query) ==
    LET query_lower == lower(query) IN
    [original_query |-> query,
     query_type |->
        IF AnyIn(ProcessWords, query_lower) THEN "process"
        ELSE IF AnyIn(DefinitionWords, query_lower) THEN "definition"
        ELSE IF AnyIn(ComparisonWords, query_lower) THEN "comparison"
        ELSE "general"]

\* QueryAnalyzerAgent.analyze_query
analyze_query(query) ==
    LET query_lower == lower(query) IN
    [original_query |-> query,
     query_type |->
        IF AnyIn(DefinitionWords, query_lower) THEN "definition"
        ELSE IF AnyIn(ProcessWords, query_lower) THEN "process"
        ELSE IF AnyIn(ComparisonWords, query_lower) THEN "comparison"
        ELSE "general"]

\* the pieces queries are put together from
Fragments ==
    { <<"W", "h", "a", "t", " ", "i", "s", " ">>,
      <<"t", "h", "e", " ">>,
      <<"D", "E", "F", "I", "N", "E">>,
      <<"d", "e", "f", "i", "n", "i", "t", "i", "o", "n">>,
      <<"h", "o", "w">>,
      <<"s">>,
      <<"p", "r", "o", "c", "e", "s", "s">>,
      <<"s", "t", "e", "p", "s">>,
      <<"m", "e", "t", "h", "o", "d">>,
      <<"c", "o", "m", "p", "a", "r", "e">>,
      <<"d", "i", "f", "f", "e", "r", "e", "n", "c", "e">>,
      <<"v">>,
      <<"v", "e", "r", "s", "u", "s">>,
      <<"x">> }

RECURSIVE QueriesOf(_)
QueriesOf(n) ==
    IF n = 0 THEN { <<>> }
    ELSE LET shorter == QueriesOf(n - 1) IN
         shorter \cup { q \o f : q \in shorter, f \in Fragments }

Queries == QueriesOf(MaxFrags)

\* ------------------------------------------------------------ SpecAnalyze
AnalyzeQuery ==
    /\ qs.pc = "asked"
    /\ qs' = [pc |-> "analyzed", query |-> qs.query,
              query_analysis |-> analyze_query(qs.query)]
    /\ UNCHANGED <<store, log, LANGCHAIN_AVAILABLE, current_embedding_model,
                   pc, caller, cur, loc, batch, events, trace, pre, call, resp, adminVars, auxVars>>

InitAnalyze ==
    /\ store = {}
    /\ log = <<>>
    /\ LANGCHAIN_AVAILABLE = TRUE
    /\ current_embedding_model = "sentence-transformers/all-MiniLM-L6-v2"
    /\ pc = "off"
    /\ caller = "none"
    /\ cur = NoFile
    /\ loc = NoLoc
    /\ batch = NoBatch
    /\ events = <<>>
    /\ trace = <<>>
    /\ pre = NoPre
    /\ call = NoCall
    /\ resp = NoResp
    /\ \E query \in Queries : qs = [pc |-> "asked", query |-> query]
    /\ AdminIdle
    /\ AuxIdle

NextAnalyze == AnalyzeQuery

SpecAnalyze == InitAnalyze /\ [][NextAnalyze]_vars

QueryTypes == {"definition", "process", "comparison", "general"}

HasAny(words, query) ==
    \E k \in 1..Len(words) : Contains(lower(query), words[k])

\* C7: every query gets exactly one query_type of definition, process,
\* comparison, general: definition when the lower-cased query contains a
\* definition keyword, otherwise process when it contains a process keyword,
\* otherwise comparison when it contains a comparison keyword, otherwise
\* general.
C7_ClassificationPriority ==
    qs.pc = "analyzed" =>
        LET t == qs.query_analysis.query_type
            d == HasAny(DefinitionWords, qs.query)
            p == HasAny(ProcessWords, qs.query)
            c == HasAny(ComparisonWords, qs.query)
        IN  /\ t \in QueryTypes
            /\ qs.query_analysis.original_query = qs.query
            /\ (t = "definition") <=> d
            /\ (t = "process") <=> (~d /\ p)
            /\ (t = "comparison") <=> (~d /\ ~p /\ c)
            /\ (t = "general") <=> (~d /\ ~p /\ ~c)

\* "What is difference": keywords of two categories, the first one wins
C7_Witness ==
    /\ qs.pc = "analyzed"
    /\ qs.query = <<"W", "h", "a", "t", " ", "i", "s", " ">> \o <<"d", "i", "f", "f", "e", "r", "e", "n", "c", "e">>
    /\ qs.query_analysis.query_type = "definition"

\* ------------------------------------------------------------ retrieval
\* The metadata of a retrieved chunk is a dict: a function on the keys it has.
Dict(filename, title, author) ==
    [k \in { x \in {"filename", "title", "author"} :
                \/ x = "filename" /\ filename # <<"no key">>
                \/ x = "title" /\ title # <<"no key">>
                \/ x = "author" /\ author # <<"no key">> }
       |-> IF k = "filename" THEN filename
           ELSE IF k = "title" THEN title ELSE author]

MetaFilenames == { <<"a">>, <<"a", "-", "b">>, <<"no key">> }
MetaTitles == { <<"c">>, <<"b", "-", "c">>, <<"no key">> }

Metadatas == { Dict(f, t, <<"Unknown">>) : f \in MetaFilenames, t \in MetaTitles }

Hits == [document : { <<"chunk text">> }, metadata : Metadatas]

\* what safe_encode and collection.query do for one search
Retrievals ==
    { [kind |-> "embedding raises", hits |-> <<>>],
      [kind |-> "query raises", hits |-> <<>>] }
    \cup { [kind |-> "hits", hits |-> h] :
              h \in UNION { [1..n -> Hits] : n \in 0..MaxResults } }

\* metadata.get(key, default)
Get(metadata, key, default) ==
    IF key \in DOMAIN metadata THEN metadata[key] ELSE default

\* f"{metadata.get('filename', '')}-{metadata.get('title', '')}"
source_key(metadata) ==
    Get(metadata, "filename", <<>>) \o <<"-">> \o Get(metadata, "title", <<>>)

source_info(metadata) ==
    [filename |-> Get(metadata, "filename", <<"Unknown">>),
     title |-> Get(metadata, "title", <<"Untitled">>),
     author |-> Get(metadata, "author", <<"Unknown">>)]

\* the loop over search_results['metadatas'][0] with its seen_sources set
RECURSIVE dedup_sources(_, _)
dedup_sources(metadatas, seen_sources) ==
    IF metadatas = <<>> THEN <<>>
    ELSE LET metadata == Head(metadatas)
             key == source_key(metadata)
         IN  IF key \in seen_sources
             THEN dedup_sources(Tail(metadatas), seen_sources)
             ELSE <<source_info(metadata)>>
                  \o dedup_sources(Tail(metadatas), seen_sources \cup {key})

\* the try block lets the exception of a failed retrieval through
search_documents_noCatch(retrieval) ==
    IF retrieval.kind # "hits"
    THEN [raised |-> TRUE, context_chunks |-> <<>>, sources |-> <<>>,
          total_chunks_found |-> 0, error |-> retrieval.kind]
    ELSE LET hits == retrieval.hits
             context_chunks == [k \in 1..Len(hits) |-> hits[k].document]
         IN  [raised |-> FALSE, context_chunks |-> context_chunks,
              sources |-> dedup_sources(
                              [k \in 1..Len(hits) |-> hits[k].metadata], {}),
              total_chunks_found |-> Len(context_chunks), error |-> "none"]

\* SearchAgent.search_documents
search_documents(retrieval) ==
    IF retrieval.kind # "hits"
    THEN [raised |-> FALSE, context_chunks |-> <<>>, sources |-> <<>>,
          total_chunks_found |-> 0, error |-> retrieval.kind]
    ELSE LET hits == retrieval.hits
             context_chunks == [k \in 1..Len(hits) |-> hits[k].document]
         IN  [raised |-> FALSE, context_chunks |-> context_chunks,
              sources |-> dedup_sources(
                              [k \in 1..Len(hits) |-> hits[k].metadata], {}),
              total_chunks_found |-> Len(context_chunks), error |-> "none"]

\* ------------------------------------------------------------ generation
\* LocalModelManager as load_local_model can leave it: the selected model,
\* whether the Gemini client exists, the task of the loaded pipeline.
ModelManagers ==
    { [current_model |-> "gemini", gemini_model |-> TRUE, task |-> "none"],
      [current_model |-> "gemini", gemini_model |-> FALSE, task |-> "none"],
      [current_model |-> "gemini", gemini_model |-> FALSE,
       task |-> "text-generation"],
      [current_model |-> "microsoft/DialoGPT-medium", gemini_model |-> TRUE,
       task |-> "text-generation"],
      [current_model |-> "google/flan-t5-base", gemini_model |-> FALSE,
       task |-> "text2text-generation"] }

SorryPrefix == "Sorry, I encountered an error: "
FallbackPrefix == "I found relevant documents but encountered an error: "
NoModelText ==
    "I understand your question but couldn't generate a detailed response with the current model configuration."

\* generate_response reaches a model and calls it
CallsModel(mm) ==
    \/ mm.current_model = "gemini" /\ mm.gemini_model
    \/ mm.task \in {"text-generation", "text2text-generation"}

\* the except clause is missing: a failed model call raises
generate_response_noCatch(mm, prompt, fails) ==
    IF CallsModel(mm)
    THEN IF fails
         THEN [raised |-> TRUE, text |-> <<"model error">>]
         ELSE [raised |-> FALSE, text |-> <<"generated", prompt.template>>]
    ELSE [raised |-> FALSE, text |-> <<NoModelText>>]

\* LocalModelManager.generate_response
generate_response(mm, prompt, fails) ==
    IF mm.current_model = "gemini" /\ mm.gemini_model
    THEN IF fails
         THEN [raised |-> FALSE, text |-> <<SorryPrefix, "model error">>]
         ELSE [raised |-> FALSE, text |-> <<"generated", prompt.template>>]
    ELSE IF mm.task = "text-generation" \/ mm.task = "text2text-generation"
    THEN IF fails
         THEN [raised |-> FALSE, text |-> <<SorryPrefix, "model error">>]
         ELSE [raised |-> FALSE, text |-> <<"generated", prompt.template>>]
    ELSE [raised |-> FALSE, text |-> <<NoModelText>>]

\* the prompt: the template chosen by query_type, the numbered sources, the
\* question
build_prompt(query, context_chunks, query_type) ==
    [template |-> IF query_type \in {"definition", "process", "comparison"}
                  THEN query_type ELSE "general",
     context |-> [k \in 1..Len(context_chunks) |->
                     [source |-> k, chunk |-> context_chunks[k]]],
     question |-> query]

\* AnswerGeneratorAgent.generate_answer
generate_answer(mm, query, context_chunks, query_analysis, fails) ==
    LET prompt == build_prompt(query, context_chunks, query_analysis.query_type)
        r == generate_response(mm, prompt, fails)
    IN  IF r.raised
        THEN [answer |-> <<FallbackPrefix>> \o r.text, prompt |-> prompt]
        ELSE [answer |-> r.text, prompt |-> prompt]

\* ------------------------------------------------------------ SpecQuery
\* One process_query call of AgentOrchestrator or LangGraphOrchestrator.
QuerySamples ==
    { <<"W", "h", "a", "t", " ", "i", "s", " ", "x">>,
      <<"h", "o", "w">>,
      <<"v", "s">>,
      <<"x">> }

NoSearch == [raised |-> FALSE, context_chunks |-> <<>>, sources |-> <<>>,
             total_chunks_found |-> 0, error |-> "none"]
NoRetrieval == [kind |-> "none", hits |-> <<>>]

\* step 1 (orchestrator.py 19, _analyze_query_node)
AnalyzeStep ==
    /\ qs.pc = "analyze"
    /\ qs' = [qs EXCEPT !.query_analysis = analyze_query(qs.query),
                        !.pc = "search"]
    /\ UNCHANGED <<store, log, LANGCHAIN_AVAILABLE, current_embedding_model,
                   pc, caller, cur, loc, batch, events, trace, pre, call, resp, adminVars, auxVars>>

\* step 2 (orchestrator.py 23, _search_documents_node)
SearchStep ==
    /\ qs.pc = "search"
    /\ \E retrieval \in Retrievals :
         LET r == search_documents(retrieval) IN
         qs' = [qs EXCEPT !.retrieval = retrieval,
                          !.search_results = r,
                          !.pc = IF r.raised THEN "raised" ELSE "generate"]
    /\ UNCHANGED <<store, log, LANGCHAIN_AVAILABLE, current_embedding_model,
                   pc, caller, cur, loc, batch, events, trace, pre, call, resp, adminVars, auxVars>>

\* step 3 and the return (orchestrator.py 27-39, _generate_answer_node and
\* langgraph_orchestrator.py 79-87)
GenerateStep ==
    /\ qs.pc = "generate"
    /\ \E fails \in BOOLEAN :
         LET g == generate_answer(qs.mm, qs.query,
                                  qs.search_results.context_chunks,
                                  qs.query_analysis, fails)
         IN  qs' = [qs EXCEPT
                      !.answer = g.answer,
                      !.gen_calls = @ + 1,
                      !.gen_context = g.prompt.context,
                      !.model_failed = fails /\ CallsModel(qs.mm),
                      !.response =
                          [question |-> qs.query,
                           answer |-> g.answer,
                           sources |-> qs.search_results.sources,
                           model_used |-> IF qs.orchestrator = "agent"
                                          THEN "agentic" ELSE "langgraph"],
                      !.pc = "done"]
    /\ UNCHANGED <<store, log, LANGCHAIN_AVAILABLE, current_embedding_model,
                   pc, caller, cur, loc, batch, events, trace, pre, call, resp, adminVars, auxVars>>

InitQuery ==
    /\ store = {}
    /\ log = <<>>
    /\ LANGCHAIN_AVAILABLE = TRUE
    /\ current_embedding_model = "sentence-transformers/all-MiniLM-L6-v2"
    /\ pc = "off"
    /\ caller = "none"
    /\ cur = NoFile
    /\ loc = NoLoc
    /\ batch = NoBatch
    /\ events = <<>>
    /\ trace = <<>>
    /\ pre = NoPre
    /\ call = NoCall
    /\ resp = NoResp
    /\ AdminIdle
    /\ AuxIdle
    /\ \E query \in QuerySamples, o \in {"agent", "langgraph"},
          mm \in ModelManagers :
         qs = [pc |-> "analyze", orchestrator |-> o, query |-> query,
               mm |-> mm,
               query_analysis |-> [original_query |-> <<>>,
                                   query_type |-> "none"],
               retrieval |-> NoRetrieval,
               search_results |-> NoSearch,
               answer |-> <<>>, gen_calls |-> 0, gen_context |-> <<>>,
               model_failed |-> FALSE,
               response |-> [question |-> <<>>, answer |-> <<>>,
                             sources |-> <<>>, model_used |-> "none"]]

NextQuery ==
    \/ AnalyzeStep
    \/ SearchStep
    \/ GenerateStep

SpecQuery == InitQuery /\ [][NextQuery]_vars

\* ------------------------------------------------------------ query claims
Searched == qs.pc \in {"generate", "done", "raised"}

RetrievedMetadatas ==
    [k \in 1..Len(qs.retrieval.hits) |-> qs.retrieval.hits[k].metadata]

\* the filename+title pair of a result: which of the two it has, and their values
PairOf(metadata) ==
    << "filename" \in DOMAIN metadata, Get(metadata, "filename", <<>>),
       "title" \in DOMAIN metadata, Get(metadata, "title", <<>>) >>

RECURSIVE FirstOfEachPair(_, _)
FirstOfEachPair(metadatas, pairs) ==
    IF metadatas = <<>> THEN <<>>
    ELSE IF PairOf(Head(metadatas)) \in pairs
    THEN FirstOfEachPair(Tail(metadatas), pairs)
    ELSE <<source_info(Head(metadatas))>>
         \o FirstOfEachPair(Tail(metadatas),
                            pairs \cup {PairOf(Head(metadatas))})

\* C8: the sources search_documents returns are the first occurrences of each
\* filename+title pair among the retrieved metadatas, in their order, and
\* nothing else.
C8_FirstOfEachPair ==
    (Searched /\ qs.retrieval.kind = "hits") =>
        qs.search_results.sources = FirstOfEachPair(RetrievedMetadatas, {})

\* C25: two retrieved results whose (filename, title) pairs differ are
\* both in the sources search_documents returns, whatever the names are,
\* with '-' in them or with a key missing.
C25_NoMerge ==
    (Searched /\ qs.retrieval.kind = "hits") =>
        \A j, k \in 1..Len(RetrievedMetadatas) :
          PairOf(RetrievedMetadatas[j]) # PairOf(RetrievedMetadatas[k]) =>
            \A m \in {RetrievedMetadatas[j], RetrievedMetadatas[k]} :
              \E n \in 1..Len(qs.search_results.sources) :
                qs.search_results.sources[n] = source_info(m)

\* C9 as claimed: process_query of AgentOrchestrator never raises, and when the
\* model call fails its answer begins with the fallback text of
\* generate_answer.
C9_FallbackOnModelFailure ==
    /\ qs.pc # "raised"
    /\ (qs.pc = "done" /\ qs.orchestrator = "agent" /\ qs.model_failed) =>
          Head(qs.response.answer) = FallbackPrefix

\* C9 as amended: process_query of AgentOrchestrator never raises and returns
\* the question with an answer; when the model call fails the answer is the
\* text beginning "Sorry, I encountered an error: " of generate_response, not
\* the fallback text of generate_answer.
C9_AlwaysResponds ==
    /\ qs.pc # "raised"
    /\ (qs.pc = "done" /\ qs.orchestrator = "agent") =>
          /\ qs.response.question = qs.query
          /\ qs.response.answer = qs.answer
          /\ qs.response.answer # <<>>
          /\ Head(qs.response.answer) # FallbackPrefix
          /\ qs.model_failed => Head(qs.response.answer) = SorryPrefix

C9_Witness ==
    /\ qs.pc = "done"
    /\ qs.orchestrator = "agent"
    /\ qs.model_failed
    /\ Head(qs.response.answer) = SorryPrefix
    /\ qs.search_results.total_chunks_found >= 1

\* C10: when the query embedding or the vector-store query raises,
\* search_documents returns no chunks, no sources and total_chunks_found = 0
\* without raising, and either orchestrator runs generation once, with an empty
\* context, and returns its answer with an empty sources list.
C10_RetrievalFailure ==
    (Searched /\ qs.retrieval.kind \in {"embedding raises", "query raises"}) =>
        /\ qs.pc # "raised"
        /\ qs.search_results.context_chunks = <<>>
        /\ qs.search_results.sources = <<>>
        /\ qs.search_results.total_chunks_found = 0
        /\ qs.pc = "generate" => qs.gen_calls = 0
        /\ qs.pc = "done" =>
             /\ qs.gen_calls = 1
             /\ qs.gen_context = <<>>
             /\ qs.response.sources = <<>>
             /\ qs.response.answer = qs.answer
             /\ qs.answer # <<>>

C10_Witness ==
    /\ qs.pc = "done"
    /\ qs.orchestrator = "langgraph"
    /\ qs.retrieval.kind = "query raises"
    /\ qs.gen_calls = 1
    /\ qs.response.sources = <<>>

\* ============================================================ the two prompts
\* generate_rag_response of main.py (the /simple-chat pipeline) chooses its
\* template from the query's keywords; the agents choose it from the
\* query_type analyze_query has returned. The four template texts are the
\* same characters in main.py and in answer_generator.py and stand as their
\* names; the context is the numbered chunks in both.

\* the comparison keywords are looked for before the process keywords
generate_rag_response_prompt_comparisonFirst(query, context_chunks) ==
    [template |->
        IF AnyIn(DefinitionWords, lower(query)) THEN "definition"
        ELSE IF AnyIn(ComparisonWords, lower(query)) THEN "comparison"
        ELSE IF AnyIn(ProcessWords, lower(query)) THEN "process"
        ELSE "general",
     context |-> [k \in 1..Len(context_chunks) |->
                     [source |-> k, chunk |-> context_chunks[k]]],
     question |-> query]

\* the prompt generate_rag_response builds (main.py 352-428)
generate_rag_response_prompt(query, context_chunks) ==
    [template |->
        IF AnyIn(DefinitionWords, lower(query)) THEN "definition"
        ELSE IF AnyIn(ProcessWords, lower(query)) THEN "process"
        ELSE IF AnyIn(ComparisonWords, lower(query)) THEN "comparison"
        ELSE "general",
     context |-> [k \in 1..Len(context_chunks) |->
                     [source |-> k, chunk |-> context_chunks[k]]],
     question |-> query]

\* the lists of retrieved chunks a prompt is built from
ContextLists ==
    UNION { [1..n -> {<<"chunk text">>, <<"other chunk">>}] :
              n \in 0..MaxResults }

\* one question goes through both pipelines with the same retrieved chunks
BuildPrompts ==
    /\ qs.pc = "asked"
    /\ \E mm \in ModelManagers : \E fails \in BOOLEAN :
         LET query_analysis == analyze_query(qs.query)
             g == generate_answer(mm, qs.query, qs.context_chunks,
                                  query_analysis, fails)
         IN  qs' = [pc |-> "prompted", query |-> qs.query,
                    context_chunks |-> qs.context_chunks,
                    query_analysis |-> query_analysis,
                    agent_prompt |-> g.prompt,
                    rag_prompt |-> generate_rag_response_prompt(
                                       qs.query, qs.context_chunks)]
    /\ UNCHANGED <<store, log, LANGCHAIN_AVAILABLE, current_embedding_model,
                   pc, caller, cur, loc, batch, events, trace, pre, call,
                   resp, adminVars, auxVars>>

InitPrompt ==
    /\ store = {}
    /\ log = <<>>
    /\ LANGCHAIN_AVAILABLE = TRUE
    /\ current_embedding_model = "sentence-transformers/all-MiniLM-L6-v2"
    /\ pc = "off"
    /\ caller = "none"
    /\ cur = NoFile
    /\ loc = NoLoc
    /\ batch = NoBatch
    /\ events = <<>>
    /\ trace = <<>>
    /\ pre = NoPre
    /\ call = NoCall
    /\ resp = NoResp
    /\ \E query \in Queries : \E context_chunks \in ContextLists :
         qs = [pc |-> "asked", query |-> query,
               context_chunks |-> context_chunks]
    /\ AdminIdle
    /\ AuxIdle

NextPrompt == BuildPrompts

SpecPrompt == InitPrompt /\ [][NextPrompt]_vars

\* C21: for every query and every list of context chunks, the prompt
\* generate_answer builds from the query_type of analyze_query is the prompt
\* generate_rag_response builds from the query's keywords: the same template,
\* the same numbered context, the same question.
C21_SamePrompt ==
    qs.pc = "prompted" =>
        /\ qs.agent_prompt = qs.rag_prompt
        /\ qs.agent_prompt.template = qs.query_analysis.query_type
        /\ qs.agent_prompt.question = qs.query
        /\ Len(qs.agent_prompt.context) = Len(qs.context_chunks)

\* "how" and "versus" in one query: both pipelines take the process template
C21_Witness ==
    /\ qs.pc = "prompted"
    /\ qs.query = <<"h", "o", "w">> \o <<"v", "e", "r", "s", "u", "s">>
    /\ qs.context_chunks = << <<"chunk text">>, <<"other chunk">> >>
    /\ qs.agent_prompt.template = "process"
    /\ qs.rag_prompt.template = "process"
    /\ qs.rag_prompt.context[2] = [source |-> 2, chunk |-> <<"other chunk">>]

\* ============================================================ safe_encode
\* One call of safe_encode(texts), a step being one model.encode call or one
\* time.sleep(1). enc.outs[k] is what the k-th model.encode call does: "ok",
\* or the exception it raises.

\* every variable of the ingestion and query handlers at rest
HandlersOff ==
    /\ store = {}
    /\ log = <<>>
    /\ LANGCHAIN_AVAILABLE = TRUE
    /\ current_embedding_model = "sentence-transformers/all-MiniLM-L6-v2"
    /\ pc = "off"
    /\ caller = "none"
    /\ cur = NoFile
    /\ loc = NoLoc
    /\ batch = NoBatch
    /\ events = <<>>
    /\ trace = <<>>
    /\ pre = NoPre
    /\ call = NoCall
    /\ resp = NoResp
    /\ qs = IdleQuery

handlerVars == <<store, log, LANGCHAIN_AVAILABLE, current_embedding_model, pc,
                 caller, cur, loc, batch, events, trace, pre, call, resp, qs>>

EncodeOutcomes == {"ok", "timeout", "out of memory"}

\* the wait is also made after the last attempt
MoreAttempts_offByOne(attempt) == attempt < max_retries

\* `attempt < max_retries - 1` (140), attempt counted from 0 as range() does
MoreAttempts(attempt) == attempt < max_retries - 1

\* lines 135-137 and 138-143: the try of one pass of the for loop
EncodeAttempt ==
    /\ enc.pc = "encode"
    /\ LET out == enc.outs[enc.attempt + 1] IN
       IF out = "ok"
       THEN enc' = [enc EXCEPT !.pc = "returned",
                               !.calls = @ + 1,
                               !.hist = Append(@, "encode"),
                               !.result = [embeddings_of_call |-> enc.attempt + 1]]
       ELSE IF MoreAttempts(enc.attempt)
       THEN enc' = [enc EXCEPT !.pc = "sleep",
                               !.calls = @ + 1,
                               !.hist = Append(@, "encode"),
                               !.logged = Append(@, out)]
       ELSE enc' = [enc EXCEPT !.pc = "raised",
                               !.calls = @ + 1,
                               !.hist = Append(@, "encode"),
                               !.logged = Append(@, out),
                               !.error = [kind |-> "Embedding failed after retries",
                                          retries |-> max_retries,
                                          cause |-> out]]
    /\ UNCHANGED <<handlerVars, adminVars, chat, manager, runs>>

\* time.sleep(1) (141) and the for loop's step; a loop that runs out of
\* attempts ends the function, which then returns None
EncodeSleep ==
    /\ enc.pc = "sleep"
    /\ enc' = [enc EXCEPT !.sleeps = @ + 1,
                          !.hist = Append(@, "sleep"),
                          !.attempt = @ + 1,
                          !.pc = IF enc.attempt + 1 < max_retries
                                 THEN "encode" ELSE "returned"]
    /\ UNCHANGED <<handlerVars, adminVars, chat, manager, runs>>

NoEncodeError == [kind |-> "none", retries |-> 0, cause |-> "none"]
None == [embeddings_of_call |-> 0]

InitEncode ==
    /\ HandlersOff
    /\ AdminIdle
    /\ chat = NoChat
    /\ manager = NoManager
    /\ runs = NoRuns
    /\ \E outs \in [1..max_retries -> EncodeOutcomes] :
         enc = [pc |-> "encode", outs |-> outs, attempt |-> 0, calls |-> 0,
                sleeps |-> 0, hist |-> <<>>, logged |-> <<>>,
                result |-> None, error |-> NoEncodeError]

NextEncode ==
    \/ EncodeAttempt
    \/ EncodeSleep

SpecEncode == InitEncode /\ [][NextEncode]_vars

\* the calls and waits of a safe_encode that made n calls: a wait between
\* two consecutive calls and nowhere else
Alternating(n) ==
    [k \in 1..(2 * n - 1) |-> IF k % 2 = 1 THEN "encode" ELSE "sleep"]

\* C11: safe_encode makes at most max_retries = 3 model.encode calls; it
\* returns what the first successful call returned and calls no more; it
\* sleeps between two consecutive calls and not after the last; it raises,
\* with the error of the last call, exactly when all three calls fail; it
\* never returns None. The function safe_encode of the ingestion model agrees.
C11_BoundedRetry ==
    LET n == enc.calls
        failed(k) == enc.outs[k] # "ok"
        pure == safe_encode([k \in 1..max_retries |-> enc.outs[k] = "ok"])
    IN  enc.pc # "off" =>
        /\ n <= max_retries
        /\ \A k \in 1..n - 1 : failed(k)
        /\ enc.pc \in {"returned", "raised"} =>
             /\ n >= 1
             /\ enc.hist = Alternating(n)
             /\ enc.sleeps = n - 1
             /\ pure.calls = n
             /\ pure.ok = (enc.pc = "returned")
        /\ enc.pc = "returned" =>
             /\ ~failed(n)
             /\ enc.result = [embeddings_of_call |-> n]
             /\ enc.result # None
             /\ enc.error = NoEncodeError
        /\ enc.pc = "raised" =>
             /\ n = max_retries
             /\ \A k \in 1..max_retries : failed(k)
             /\ enc.error.cause = enc.outs[max_retries]
             /\ enc.result = None
        /\ (enc.pc \in {"returned", "raised"}
              /\ \A k \in 1..max_retries : failed(k)) => enc.pc = "raised"

C11_Witness ==
    /\ enc.pc = "raised"
    /\ enc.calls = 3
    /\ enc.sleeps = 2
    /\ enc.outs[2] = "timeout"
    /\ enc.error.cause = "out of memory"

\* ============================================================ the server
\* POST /upload together with set_embedding_model, delete_document and
\* get_uploaded_files. The three are coroutines without an await of their
\* own: the event loop runs each of them whole, at any await of an upload in
\* progress (its update_progress broadcasts), so SpecServer lets them act at
\* every position of the upload.

MaxLog == 2        \* uploads are accepted while the log has fewer entries
MaxSwitches == 1   \* collections set_embedding_model may create

EMBEDDING_MODELS == {"BAAI/bge-m3", "sentence-transformers/all-MiniLM-L6-v2"}

ModelNames == EMBEDDING_MODELS \cup {"all-mpnet-base-v2"}

\* the uploads of SpecServer: two names, two files of one name
ServerFiles ==
    { File(<<"a", "txt">>, <<"w">>),
      File(<<"b", "PDF">>, <<"w">>),
      File(<<"a", "txt">>, <<"w", "_", "w">>) }

Req(kind, arg, status, ids, files) ==
    [kind |-> kind, arg |-> arg, status |-> status, ids |-> ids,
     files |-> files]

\* the collection is emptied only when the model changes
set_embedding_model_keep(model_name) ==
    IF model_name \notin EMBEDDING_MODELS
    THEN [status |-> "http 400 Invalid embedding model",
          current_embedding_model |-> current_embedding_model,
          store |-> store, client |-> client]
    ELSE [status |-> "success",
          current_embedding_model |-> model_name,
          store |-> IF model_name = current_embedding_model THEN store ELSE {},
          client |-> client + 1]

\* set_embedding_model: current_embedding_model and model are assigned
\* together (459-460) and stand as one variable; delete_collection drops the
\* collection with its chunks, get_collection creates a new, empty one
set_embedding_model(model_name) ==
    IF model_name \notin EMBEDDING_MODELS
    THEN [status |-> "http 400 Invalid embedding model",
          current_embedding_model |-> current_embedding_model,
          store |-> store, client |-> client]
    ELSE [status |-> "success",
          current_embedding_model |-> model_name,
          store |-> {},
          client |-> client + 1]

SetEmbeddingModel ==
    /\ \E model_name \in ModelNames :
         LET r == set_embedding_model(model_name) IN
         /\ model_name \in EMBEDDING_MODELS => client <= MaxSwitches
         /\ current_embedding_model' = r.current_embedding_model
         /\ store' = r.store
         /\ client' = r.client
         /\ req' = Req("set_embedding_model", model_name, r.status, 0, <<>>)
    /\ UNCHANGED <<log, LANGCHAIN_AVAILABLE, pc, caller, cur, loc, batch,
                   events, trace, pre, call, resp, qs, collection,
                   log_decodable, auxVars>>

\* the log is left as it is
delete_document_keepLog(filename) ==
    IF collection # client
    THEN [status |-> "http 500", ids |-> 0, store |-> store, log |-> log]
    ELSE LET results == { c \in store : c.filename = filename } IN
         IF ~log_decodable
         THEN [status |-> "http 500", ids |-> Cardinality(results),
               store |-> store \ results, log |-> log]
         ELSE [status |-> "deleted", ids |-> Cardinality(results),
               store |-> store \ results, log |-> log]

\* delete_document works through the handle of line 102. A handle whose
\* collection delete_collection has dropped names no collection: its get
\* raises and the handler answers 500 with nothing done. A log file that
\* json.load cannot decode raises after the chunks are deleted (509-515).
delete_document(filename) ==
    IF collection # client
    THEN [status |-> "http 500", ids |-> 0, store |-> store, log |-> log]
    ELSE LET results == { c \in store : c.filename = filename } IN
         IF ~log_decodable
         THEN [status |-> "http 500", ids |-> Cardinality(results),
               store |-> store \ results, log |-> log]
         ELSE [status |-> "deleted", ids |-> Cardinality(results),
               store |-> store \ results,
               log |-> SelectSeq(log, LAMBDA entry : entry.filename # filename)]

DeleteDocument ==
    /\ \E f \in ServerFiles :
         LET r == delete_document(f.filename) IN
         /\ store' = r.store
         /\ log' = r.log
         /\ req' = Req("delete_document", f.filename, r.status, r.ids, <<>>)
    /\ UNCHANGED <<LANGCHAIN_AVAILABLE, current_embedding_model, pc, caller,
                   cur, loc, batch, events, trace, pre, call, resp, qs, client,
                   collection, log_decodable, auxVars>>

\* {"files": log_data}, and {"files": []} when the file is missing or
\* json.load raises (660-670)
get_uploaded_files(decodable, lg) == IF decodable THEN lg ELSE <<>>

GetUploadedFiles ==
    /\ req' = Req("get_uploaded_files", <<>>, "ok", 0,
                  get_uploaded_files(log_decodable, log))
    /\ UNCHANGED <<handlerVars, client, collection, log_decodable, auxVars>>

\* POST /upload, while the log is below its bound
ServerUpload ==
    /\ Len(log) < MaxLog
    /\ UploadOf(ServerFiles)

\* The server starts in a build without LangChain (the splitter is the
\* code's own) and with the log file earlier runs left: none, or one an
\* interrupted write left undecodable.
InitServer ==
    /\ store = {}
    /\ log = <<>>
    /\ log_decodable \in BOOLEAN
    /\ LANGCHAIN_AVAILABLE = FALSE
    /\ current_embedding_model = "sentence-transformers/all-MiniLM-L6-v2"
    /\ pc = "idle"
    /\ caller = "none"
    /\ cur = NoFile
    /\ loc = NoLoc
    /\ batch = NoBatch
    /\ events = <<>>
    /\ trace = <<>>
    /\ pre = NoPre
    /\ call = NoCall
    /\ resp = NoResp
    /\ qs = IdleQuery
    /\ client = 1
    /\ collection = 1
    /\ req = NoReq
    /\ AuxIdle

NextServer ==
    \/ ServerUpload
    \/ Validating
    \/ Metadata
    \/ Parsing
    \/ Chunking
    \/ Embedding
    \/ Preparing
    \/ Storing
    \/ Complete
    \/ UploadError
    \/ SetEmbeddingModel
    \/ DeleteDocument
    \/ GetUploadedFiles

SpecServer == InitServer /\ [][NextServer]_vars

\* ------------------------------------------------------------ server claims
Filenames(s) == { c.filename : c \in s }

\* C12: a delete_document(filename) that answers "deleted" leaves no chunk and
\* no log entry of that filename, get_uploaded_files called next does not
\* list it, and the chunks and log entries of every other filename are the
\* ones there were before, in their order.
C12_DeleteRemoves ==
    [][ (DeleteDocument /\ req'.status = "deleted") =>
          LET filename == req'.arg
              files == get_uploaded_files(log_decodable', log')
          IN  /\ \A c \in store' : c.filename # filename
              /\ \A k \in 1..Len(log') : log'[k].filename # filename
              /\ \A k \in 1..Len(files) : files[k].filename # filename
              /\ store' = { c \in store : c.filename # filename }
              /\ log' = SelectSeq(log, LAMBDA e : e.filename # filename)
              /\ req'.ids = Cardinality(store) - Cardinality(store') ]_vars

C12_Witness ==
    /\ req.kind = "delete_document"
    /\ req.status = "deleted"
    /\ req.arg = <<"a", "txt">>
    /\ req.ids = 2
    /\ Filenames(store) = {<<"b", "PDF">>}
    /\ Len(log) = 1
    /\ log[1].filename = <<"b", "PDF">>

\* C18: set_embedding_model with a configured name makes it the active
\* model and leaves a new, empty "documents" collection; with any other name
\* it answers "Invalid embedding model" and the active model, the collection
\* and its chunks are what they were.
C18_SwitchModel ==
    [][ SetEmbeddingModel =>
          IF req'.arg \in EMBEDDING_MODELS
          THEN /\ req'.status = "success"
               /\ current_embedding_model' = req'.arg
               /\ store' = {}
               /\ client' # client
               /\ client' >= 1
          ELSE /\ req'.status = "http 400 Invalid embedding model"
               /\ current_embedding_model' = current_embedding_model
               /\ store' = store
               /\ client' = client ]_vars

C18_Witness ==
    /\ req.kind = "set_embedding_model"
    /\ req.status = "success"
    /\ req.arg = "sentence-transformers/all-MiniLM-L6-v2"
    /\ current_embedding_model = req.arg
    /\ store = {}
    /\ client = 2
    /\ Len(log) = 2
    /\ pc = "idle"

\* C19: a log_upload call (the "complete" step of an ingestion) keeps every
\* entry json.load read from the log, in order, and adds one entry, that of
\* the file just ingested, at the end; no other step of an ingestion writes
\* the log.
C19_LogAppendOnly ==
    [][ /\ Complete =>
             LET log_data == load_log(log_decodable, log) IN
             /\ log_decodable'
             /\ Len(log') = Len(log_data) + 1
             /\ SubSeq(log', 1, Len(log_data)) = log_data
             /\ log_data = log
             /\ log'[Len(log')].filename = cur.filename
             /\ log'[Len(log')].file_hash = loc.file_hash
        /\ (log' # log \/ log_decodable' # log_decodable) =>
             (Complete \/ DeleteDocument) ]_vars

C19_Witness ==
    /\ call.status = "ok"
    /\ Len(log) = 2
    /\ log[1].filename = log[2].filename
    /\ log[1].file_hash # log[2].file_hash
    /\ log[2].file_hash = get_file_hash(cur.content)
    /\ req.kind = "set_embedding_model"

\* C20: every vector of the collection has the dimension of the active
\* embedding model.
C20_VectorsOfActiveModel ==
    \A c \in store : c.dim = Dim(current_embedding_model)

\* the upload log and the collection tell the same: the hashes are the same
\* and every entry counts the chunks of its hash
LogStoreAgree(s, lg) ==
    /\ \A c \in s : \E k \in 1..Len(lg) : lg[k].file_hash = c.file_hash
    /\ \A k \in 1..Len(lg) :
         /\ existsByHash(s, lg[k].file_hash)
         /\ lg[k].chunks_stored =
              Cardinality({ c \in s : c.file_hash = lg[k].file_hash })

\* what requests served one after the other leave: one entry for a hash,
\* and the chunks of a hash under the filename of its entry
OneRunPerHash(s, lg) ==
    /\ \A j, k \in 1..Len(lg) : lg[j].file_hash = lg[k].file_hash => j = k
    /\ \A c \in s : \A k \in 1..Len(lg) :
         lg[k].file_hash = c.file_hash => lg[k].filename = c.filename

\* C22: when the upload log and the collection agree between requests (no
\* upload in progress, every hash ingested once), a set_embedding_model,
\* delete_document or get_uploaded_files request leaves them in agreement.
C22_LogStoreAgree ==
    [][ ( /\ pc = "idle"
          /\ pc' = "idle"
          /\ OneRunPerHash(store, load_log(log_decodable, log))
          /\ LogStoreAgree(store, load_log(log_decodable, log)) ) =>
            LogStoreAgree(store', load_log(log_decodable', log')) ]_vars

\* C26: delete_document works on the collection uploads write to: whatever
\* set_embedding_model calls came before, a delete_document of a filename
\* that has chunks in the collection (the log being readable) answers
\* "deleted" and leaves no chunk of that filename, so that the hash check of
\* a new upload of the same content finds nothing.
C26_DeleteSameCollection ==
    [][ ( /\ DeleteDocument
          /\ log_decodable
          /\ \E c \in store : c.filename = req'.arg ) =>
            /\ req'.status = "deleted"
            /\ \A c \in store' : c.filename # req'.arg
            /\ \A c \in store :
                 c.filename = req'.arg => ~existsByHash(store', c.file_hash)
      ]_vars

\* ============================================================ chat history
\* ChatHistoryManager (chat_history.py). chat.files[u] is the "sessions"
\* dict of u's JSON file, its items in insertion order; a file that does not
\* exist loads as the empty dict (16-21) and only a save of a non-empty dict
\* creates one, so the two are one value here. SpecChat runs the operations
\* one after the other; SpecChatRace runs two add_message calls whose loads
\* and saves interleave.

MaxClock == 5      \* datetime.now() calls in one behaviour
MaxSessions == 2   \* create_session calls in one behaviour

Users == {"u1", "u2"}

\* datetime.now().isoformat(): the clock counts half seconds, the string has
\* no fraction when the microsecond is 0 ("…:01" but "…:01.5"); characters
\* are their codes, "." = 46 and "0" = 48
isoformat(now) ==
    IF now % 2 = 0 THEN <<48 + now \div 2>>
    ELSE <<48 + now \div 2, 46, 53>>

\* str < str
RECURSIVE StrLess(_, _)
StrLess(a, b) ==
    IF b = <<>> THEN FALSE
    ELSE IF a = <<>> THEN TRUE
    ELSE IF Head(a) # Head(b) THEN Head(a) < Head(b)
    ELSE StrLess(Tail(a), Tail(b))

SessionIds(sessions) == { sessions[k].id : k \in 1..Len(sessions) }

AllSessionIds(files) == UNION { SessionIds(files[u]) : u \in Users }

\* str(uuid.uuid4()): an identifier no session has
NewSessionId(files) == Cardinality(AllSessionIds(files)) + 1

\* user_data["sessions"][session_id]
Index(sessions, session_id) ==
    CHOOSE k \in 1..Len(sessions) : sessions[k].id = session_id

\* create_session (28-46)
create_session(files, user_id, title, now) ==
    LET session == [id |-> NewSessionId(files), user_id |-> user_id,
                    title |-> title, messages |-> <<>>,
                    created_at |-> isoformat(now),
                    updated_at |-> isoformat(now), is_active |-> TRUE]
    IN  [files EXCEPT ![user_id] = Append(@, session)]

Message(role, content, now) ==
    [role |-> role, content |-> content, timestamp |-> isoformat(now),
     sources |-> <<>>]

\* the new message is put in front of the others
append_message_front(sessions, session_id, message, now) ==
    LET k == Index(sessions, session_id) IN
    [sessions EXCEPT ![k].messages = <<message>> \o @,
                     ![k].updated_at = isoformat(now)]

\* add_message, lines 61-63, on the loaded dict
append_message(sessions, session_id, message, now) ==
    LET k == Index(sessions, session_id) IN
    [sessions EXCEPT ![k].messages = Append(@, message),
                     ![k].updated_at = isoformat(now)]

\* the record is taken out of the dict
deactivate_pop(sessions, session_id) ==
    SelectSeq(sessions, LAMBDA x : x.id # session_id)

\* delete_session, line 98
deactivate(sessions, session_id) ==
    [sessions EXCEPT ![Index(sessions, session_id)].is_active = FALSE]

\* update_session_title, lines 109-111
retitle(sessions, session_id, title, now) ==
    LET k == Index(sessions, session_id) IN
    [sessions EXCEPT ![k].title = title, ![k].updated_at = isoformat(now)]

NoSession == [id |-> 0, user_id |-> "none", title |-> "none",
              messages |-> <<>>, created_at |-> <<>>, updated_at |-> <<>>,
              is_active |-> FALSE]

\* get_session (69-80): None is NoSession
get_session(files, user_id, session_id) ==
    IF session_id \in SessionIds(files[user_id])
          /\ files[user_id][Index(files[user_id], session_id)].is_active
    THEN files[user_id][Index(files[user_id], session_id)]
    ELSE NoSession

\* the sort is ascending
RECURSIVE InsertDesc_ascending(_, _)
InsertDesc_ascending(sorted, x) ==
    IF sorted = <<>> THEN <<x>>
    ELSE IF StrLess(x.updated_at, Head(sorted).updated_at)
    THEN <<x>> \o sorted
    ELSE <<Head(sorted)>> \o InsertDesc_ascending(Tail(sorted), x)

\* list.sort(key=updated_at, reverse=True) is stable: x goes behind every
\* element whose key is not below its own
RECURSIVE InsertDesc(_, _)
InsertDesc(sorted, x) ==
    IF sorted = <<>> THEN <<x>>
    ELSE IF StrLess(Head(sorted).updated_at, x.updated_at)
    THEN <<x>> \o sorted
    ELSE <<Head(sorted)>> \o InsertDesc(Tail(sorted), x)

RECURSIVE SortDesc(_)
SortDesc(sessions) ==
    IF sessions = <<>> THEN <<>>
    ELSE InsertDesc(SortDesc(SubSeq(sessions, 1, Len(sessions) - 1)),
                    sessions[Len(sessions)])

\* get_user_sessions (82-92)
get_user_sessions(files, user_id) ==
    SortDesc(SelectSeq(files[user_id], LAMBDA x : x.is_active))

\* chat.touched[i] is the clock at the last create, append or rename of
\* session i, chat.deleted the sessions delete_session returned True for,
\* chat.last what the call just made returned or raised when it was an
\* add_message, with whether the id it passed is one of another user's file
Last(op, status, foreign) == [op |-> op, status |-> status, foreign |-> foreign]

OtherCall == Last("other", "none", FALSE)

\* session ids a caller may pass: those that exist and one that does not
KnownIds == 1..(Cardinality(AllSessionIds(chat.files)) + 1)

CreateSession ==
    /\ chat.pc = "serial"
    /\ chat.clock < MaxClock
    /\ Cardinality(AllSessionIds(chat.files)) < MaxSessions
    /\ \E user_id \in Users, title \in {"t1"} :
         chat' = [chat EXCEPT
                    !.files = create_session(chat.files, user_id, title,
                                             chat.clock),
                    !.clock = @ + 1,
                    !.touched = Append(@, chat.clock + 1),
                    !.last = OtherCall]
    /\ UNCHANGED <<handlerVars, adminVars, enc, manager, runs>>

\* add_message (48-67): datetime.now() is read for the message and again for
\* updated_at
AddMessageOf(user_id, session_id) ==
    /\ chat.pc = "serial"
    /\ IF session_id \notin SessionIds(chat.files[user_id])
       THEN chat' = [chat EXCEPT
                       !.last = Last("add_message", "Session not found",
                                     session_id \in AllSessionIds(chat.files))]
       ELSE /\ chat.clock + 1 < MaxClock
            /\ chat' = [chat EXCEPT
                          !.files[user_id] =
                              append_message(@, session_id,
                                  Message("user", "hello", chat.clock),
                                  chat.clock + 1),
                          !.clock = @ + 2,
                          !.touched[session_id] = chat.clock + 2,
                          !.last = Last("add_message", "ok", FALSE)]
    /\ UNCHANGED <<handlerVars, adminVars, enc, manager, runs>>

AddMessage ==
    \E user_id \in Users, session_id \in KnownIds :
        AddMessageOf(user_id, session_id)

\* update_session_title (103-115)
UpdateSessionTitle ==
    /\ chat.pc = "serial"
    /\ \E user_id \in Users, session_id \in KnownIds :
         IF session_id \notin SessionIds(chat.files[user_id])
         THEN chat' = [chat EXCEPT !.last = OtherCall]
         ELSE /\ chat.clock < MaxClock
              /\ chat' = [chat EXCEPT
                            !.files[user_id] =
                                retitle(@, session_id, "t2", chat.clock),
                            !.clock = @ + 1,
                            !.touched[session_id] = chat.clock + 1,
                            !.last = OtherCall]
    /\ UNCHANGED <<handlerVars, adminVars, enc, manager, runs>>

\* delete_session (94-101)
DeleteSessionOf(user_id, session_id) ==
    /\ chat.pc = "serial"
    /\ IF session_id \in SessionIds(chat.files[user_id])
       THEN chat' = [chat EXCEPT
                       !.files[user_id] = deactivate(@, session_id),
                       !.deleted = @ \cup {<<user_id, session_id>>},
                       !.last = OtherCall]
       ELSE chat' = [chat EXCEPT !.last = OtherCall]
    /\ UNCHANGED <<handlerVars, adminVars, enc, manager, runs>>

DeleteSession ==
    \E user_id \in Users, session_id \in KnownIds :
        DeleteSessionOf(user_id, session_id)

InitChat ==
    /\ HandlersOff
    /\ AdminIdle
    /\ enc = NoEnc
    /\ manager = NoManager
    /\ runs = NoRuns
    /\ chat = [pc |-> "serial", files |-> [u \in Users |-> <<>>], clock |-> 0,
               touched |-> <<>>, deleted |-> {}, last |-> OtherCall]

NextChat ==
    \/ CreateSession
    \/ AddMessage
    \/ UpdateSessionTitle
    \/ DeleteSession

SpecChat == InitChat /\ [][NextChat]_vars

\* ------------------------------------------------------------ chat claims
Record(files, user_id, session_id) ==
    files[user_id][Index(files[user_id], session_id)]

Listed(files, user_id) ==
    { get_user_sessions(files, user_id)[k].id :
        k \in 1..Len(get_user_sessions(files, user_id)) }

\* C13: a session delete_session returned True for is not listed by
\* get_user_sessions and get_session gives None for it, while its record is
\* in the user's file with is_active false; the delete changes nothing but
\* that flag, so the messages are all there; no operation takes a session
\* record out of a file.
C13_SoftDelete ==
    /\ [](\A d \in chat.deleted :
            /\ d[2] \in SessionIds(chat.files[d[1]])
            /\ ~Record(chat.files, d[1], d[2]).is_active
            /\ d[2] \notin Listed(chat.files, d[1])
            /\ get_session(chat.files, d[1], d[2]) = NoSession)
    /\ [][ \A u \in Users : \A x \in SessionIds(chat.files[u]) :
             DeleteSessionOf(u, x) =>
                 /\ <<u, x>> \in chat'.deleted
                 /\ chat'.files =
                      [chat.files EXCEPT
                         ![u][Index(chat.files[u], x)].is_active = FALSE]
                 /\ Record(chat'.files, u, x).messages =
                      Record(chat.files, u, x).messages ]_vars
    /\ [][ \A u \in Users :
             SessionIds(chat.files[u]) \subseteq SessionIds(chat'.files[u]) ]_vars

C13_Witness ==
    \E d \in chat.deleted :
        /\ ~Record(chat.files, d[1], d[2]).is_active
        /\ Len(Record(chat.files, d[1], d[2]).messages) = 1
        /\ get_session(chat.files, d[1], d[2]) = NoSession
        /\ Len(get_user_sessions(chat.files, d[1])) = 1
        /\ Len(chat.files[d[1]]) = 2

\* C14: add_message with a session id that is not in the user's own file
\* raises "Session not found" and writes no file; with one that is, the
\* message becomes the last of the session's messages, the earlier ones are
\* as they were, and nothing else in any file changes but the session's
\* updated_at.
C14_AddMessage ==
    [][ \A u \in Users : \A x \in KnownIds :
          AddMessageOf(u, x) =>
              IF x \notin SessionIds(chat.files[u])
              THEN /\ chat'.last.status = "Session not found"
                   /\ chat'.files = chat.files
              ELSE LET k == Index(chat.files[u], x)
                       old == chat.files[u][k]
                       new == chat'.files[u][k]
                   IN  /\ chat'.last.status = "ok"
                       /\ Len(new.messages) = Len(old.messages) + 1
                       /\ SubSeq(new.messages, 1, Len(old.messages))
                            = old.messages
                       /\ new.messages[Len(new.messages)].content = "hello"
                       /\ chat'.files =
                            [chat.files EXCEPT
                               ![u][k].messages = new.messages,
                               ![u][k].updated_at = new.updated_at] ]_vars

C14_Witness ==
    /\ chat.last = Last("add_message", "Session not found", TRUE)
    /\ chat.files["u1"] = <<>>
    /\ Len(chat.files["u2"]) = 1
    /\ Len(chat.files["u2"][1].messages) = 2

\* C15: get_user_sessions(user) is the user's sessions whose is_active is
\* true, each once and as stored, the one created, appended to or renamed
\* last coming first.
C15_ListingOrder ==
    chat.pc = "serial" =>
      \A u \in Users :
        LET r == get_user_sessions(chat.files, u) IN
        /\ Listed(chat.files, u) =
             { x \in SessionIds(chat.files[u]) :
                 Record(chat.files, u, x).is_active }
        /\ \A i, j \in 1..Len(r) :
             i < j => chat.touched[r[i].id] > chat.touched[r[j].id]
        /\ \A i \in 1..Len(r) : r[i] = Record(chat.files, u, r[i].id)

C15_Witness ==
    LET r == get_user_sessions(chat.files, "u1") IN
    /\ Len(chat.files["u1"]) = 2
    /\ Len(r) = 2
    /\ r[1].id < r[2].id
    /\ Len(r[1].updated_at) # Len(r[2].updated_at)

\* ------------------------------------------------------------ SpecChatRace
\* add_message calls made at the same time (request handlers in threads, or
\* several worker processes): nothing orders the load (49) of one call and
\* the save (65) of another. Each caller passes a user and a session id; the
\* content of its message is its own number.

MaxCallers == 2    \* add_message calls in progress together

Callers == 1..MaxCallers

\* u1 has session 1 and u2 session 2, created at clock 0 and 1
RaceFiles ==
    create_session(create_session([u \in Users |-> <<>>], "u1", "t1", 0),
                   "u2", "t1", 1)

\* user_data = self._load_user_chats(user_id)
LoadUserChats(p) ==
    /\ chat.pc = "race"
    /\ chat.callers[p].pc = "called"
    /\ chat' = [chat EXCEPT
                  !.seq = @ + 1,
                  !.callers[p].pc = "loaded",
                  !.callers[p].user_data = chat.files[chat.callers[p].user_id],
                  !.callers[p].loaded_at = chat.seq + 1]
    /\ UNCHANGED <<handlerVars, adminVars, enc, manager, runs>>

\* the append is made to the file as it is when the caller saves
SaveUserChats_locked(p) ==
    /\ chat.pc = "race"
    /\ chat.callers[p].pc = "loaded"
    /\ LET c == chat.callers[p] IN
       IF c.session_id \notin SessionIds(chat.files[c.user_id])
       THEN chat' = [chat EXCEPT
                       !.callers[p].pc = "returned",
                       !.callers[p].status = "Session not found"]
       ELSE LET data == append_message(chat.files[c.user_id], c.session_id,
                                       Message("user", p, chat.clock),
                                       chat.clock + 1)
            IN  chat' = [chat EXCEPT
                           !.files[c.user_id] = data,
                           !.clock = @ + 2,
                           !.seq = @ + 1,
                           !.callers[p].pc = "returned",
                           !.callers[p].status = "ok",
                           !.callers[p].user_data = data,
                           !.callers[p].saved_at = chat.seq + 1]
    /\ UNCHANGED <<handlerVars, adminVars, enc, manager, runs>>

\* lines 51-67 on the dict the caller loaded: the check, the append and
\* the save of the whole dict
SaveUserChats(p) ==
    /\ chat.pc = "race"
    /\ chat.callers[p].pc = "loaded"
    /\ LET c == chat.callers[p] IN
       IF c.session_id \notin SessionIds(c.user_data)
       THEN chat' = [chat EXCEPT
                       !.callers[p].pc = "returned",
                       !.callers[p].status = "Session not found"]
       ELSE LET data == append_message(c.user_data, c.session_id,
                                       Message("user", p, chat.clock),
                                       chat.clock + 1)
            IN  chat' = [chat EXCEPT
                           !.files[c.user_id] = data,
                           !.clock = @ + 2,
                           !.seq = @ + 1,
                           !.callers[p].pc = "returned",
                           !.callers[p].status = "ok",
                           !.callers[p].user_data = data,
                           !.callers[p].saved_at = chat.seq + 1]
    /\ UNCHANGED <<handlerVars, adminVars, enc, manager, runs>>

InitChatRace ==
    /\ HandlersOff
    /\ AdminIdle
    /\ enc = NoEnc
    /\ manager = NoManager
    /\ runs = NoRuns
    /\ \E args \in [Callers -> Users \X {1, 2}] :
         chat = [pc |-> "race", files |-> RaceFiles, clock |-> 2, seq |-> 0,
                 callers |-> [p \in Callers |->
                     [pc |-> "called", user_id |-> args[p][1],
                      session_id |-> args[p][2], user_data |-> <<>>,
                      status |-> "none", loaded_at |-> 0, saved_at |-> 0]]]

NextChatRace ==
    \/ \E p \in Callers : LoadUserChats(p)
    \/ \E p \in Callers : SaveUserChats(p)

SpecChatRace == InitChatRace /\ [][NextChatRace]_vars

\* the contents of the messages of session x in u's stored file
Contents(files, u, x) ==
    { Record(files, u, x).messages[k].content :
        k \in 1..Len(Record(files, u, x).messages) }

Saved(p) == chat.callers[p].status = "ok"

\* q is the caller whose save of u's file was the last
LastSaver(q) ==
    /\ Saved(q)
    /\ \A r \in Callers :
         (Saved(r) /\ chat.callers[r].user_id = chat.callers[q].user_id) =>
             chat.callers[r].saved_at <= chat.callers[q].saved_at

\* C16: when a caller p saves a user's file after a caller q has loaded it
\* and before q saves, q's save wins: the file is what q loaded with q's
\* message appended, and the message of p is not in its session, though
\* add_message returned the session to both.
C16_LostUpdate ==
    chat.pc = "race" =>
      \A p, q \in Callers :
        ( /\ p # q
          /\ LastSaver(q)
          /\ Saved(p)
          /\ chat.callers[p].user_id = chat.callers[q].user_id
          /\ chat.callers[q].loaded_at < chat.callers[p].saved_at
          /\ chat.callers[p].saved_at < chat.callers[q].saved_at ) =>
            LET u == chat.callers[q].user_id IN
            /\ chat.files[u] = chat.callers[q].user_data
            /\ p \notin Contents(chat.files, u, chat.callers[p].session_id)
            /\ q \in Contents(chat.files, u, chat.callers[q].session_id)
            /\ chat.callers[p].pc = "returned"
            /\ chat.callers[q].pc = "returned"

C16_Witness ==
    /\ chat.pc = "race"
    /\ Saved(1)
    /\ Saved(2)
    /\ chat.callers[1].user_id = "u1"
    /\ chat.callers[2].user_id = "u1"
    /\ chat.callers[1].loaded_at < chat.callers[2].loaded_at
    /\ chat.callers[2].loaded_at < chat.callers[1].saved_at
    /\ chat.callers[1].saved_at < chat.callers[2].saved_at
    /\ Contents(chat.files, "u1", 1) = {2}

\* ============================================================ progress
\* ConnectionManager and update_progress (main.py 76-91, 114-125, 443-451).
\* update_progress iterates manager.active_connections itself: the for loop
\* keeps an index into the list, and manager.disconnect removes from the same
\* list. A send is an await: while it is in flight the event loop runs the
\* /ws/progress handlers, which connect and disconnect listeners.

MaxListeners == 2  \* websockets that connect in one behaviour
MaxEvents == 2     \* update_progress calls in one behaviour

Sockets == 1..MaxListeners

\* list.remove(x): the first occurrence goes
RECURSIVE Remove(_, _)
Remove(list, x) ==
    IF list = <<>> THEN <<>>
    ELSE IF Head(list) = x THEN Tail(list)
    ELSE <<Head(list)>> \o Remove(Tail(list), x)

InList(list, x) == \E k \in 1..Len(list) : list[k] = x

\* the for statement asks the list iterator for its next item: the item at
\* the iterator's index in the list as it is now, or the end of the loop
ForNext(m) ==
    IF m.i < Len(m.active_connections)
    THEN [m EXCEPT !.pc = "awaiting", !.ws = m.active_connections[m.i + 1],
                   !.i = @ + 1]
    ELSE [m EXCEPT !.pc = "idle", !.ws = 0, !.ended = "returned"]

\* websocket_progress up to its first receive_text: manager.connect
Connect(ws) ==
    /\ manager.pc \in {"idle", "awaiting"}
    /\ manager.handlers[ws] = "none"
    /\ manager' = [manager EXCEPT
                     !.handlers[ws] = "open",
                     !.active_connections = Append(@, ws)]
    /\ UNCHANGED <<handlerVars, adminVars, enc, chat, runs>>

\* the peer of ws goes away: from now on a send to ws raises, and the
\* handler's receive_text will raise WebSocketDisconnect
PeerGone(ws) ==
    /\ manager.pc \in {"idle", "awaiting"}
    /\ manager.handlers[ws] = "open"
    /\ ws \notin manager.broken
    /\ manager' = [manager EXCEPT !.broken = @ \cup {ws}]
    /\ UNCHANGED <<handlerVars, adminVars, enc, chat, runs>>

\* websocket_progress, except WebSocketDisconnect: manager.disconnect, whose
\* list.remove raises ValueError when update_progress has removed ws already
HandlerDisconnect(ws) ==
    /\ manager.pc \in {"idle", "awaiting"}
    /\ manager.handlers[ws] = "open"
    /\ ws \in manager.broken
    /\ IF InList(manager.active_connections, ws)
       THEN manager' = [manager EXCEPT
                          !.handlers[ws] = "closed",
                          !.active_connections = Remove(@, ws)]
       ELSE manager' = [manager EXCEPT !.handlers[ws] = "ValueError"]
    /\ UNCHANGED <<handlerVars, adminVars, enc, chat, runs>>

\* update_progress is called: the loop starts and, unless the list is empty,
\* the first send_json is awaited
BroadcastStart ==
    /\ manager.pc = "idle"
    /\ manager.event < MaxEvents
    /\ manager' = ForNext([manager EXCEPT
                             !.event = @ + 1,
                             !.i = 0,
                             !.start = manager.active_connections,
                             !.ended = "running"])
    /\ UNCHANGED <<handlerVars, adminVars, enc, chat, runs>>

\* the awaited send_json ends: the listener has the event, or the send
\* raised and the except clause calls manager.disconnect (whose ValueError
\* leaves update_progress); then the loop goes on
SendEnd ==
    /\ manager.pc = "awaiting"
    /\ LET ws == manager.ws IN
       IF ws \notin manager.broken
       THEN manager' = ForNext([manager EXCEPT
                                  !.received[ws] = Append(@, manager.event)])
       ELSE IF InList(manager.active_connections, ws)
       THEN manager' = ForNext([manager EXCEPT
                                  !.active_connections = Remove(@, ws),
                                  !.failed[ws] = manager.event])
       ELSE manager' = [manager EXCEPT !.pc = "idle", !.ws = 0,
                                       !.failed[ws] = manager.event,
                                       !.ended = "ValueError"]
    /\ UNCHANGED <<handlerVars, adminVars, enc, chat, runs>>

InitProgress ==
    /\ HandlersOff
    /\ AdminIdle
    /\ enc = NoEnc
    /\ chat = NoChat
    /\ runs = NoRuns
    /\ manager = [pc |-> "idle", active_connections |-> <<>>,
                  handlers |-> [ws \in Sockets |-> "none"], broken |-> {},
                  event |-> 0, i |-> 0, ws |-> 0, start |-> <<>>,
                  ended |-> "none",
                  received |-> [ws \in Sockets |-> <<>>],
                  failed |-> [ws \in Sockets |-> 0]]

NextProgress ==
    \/ \E ws \in Sockets : Connect(ws)
    \/ \E ws \in Sockets : PeerGone(ws)
    \/ \E ws \in Sockets : HandlerDisconnect(ws)
    \/ BroadcastStart
    \/ SendEnd

SpecProgress == InitProgress /\ [][NextProgress]_vars

\* how many times listener ws was sent event e
Times(ws, e) ==
    Cardinality({ k \in 1..Len(manager.received[ws]) :
                    manager.received[ws][k] = e })

\* C17: when an update_progress call has returned, every listener that was
\* in active_connections when it started, and that is still connected with
\* sends to it succeeding, has the event exactly once, whatever happened to
\* the sends to other listeners; a listener a send failed for is out of
\* active_connections and has no event from that send on.
C17_BroadcastToAll ==
    manager.pc # "off" =>
      /\ (manager.pc = "idle" /\ manager.ended = "returned") =>
           \A ws \in Sockets :
             ( /\ InList(manager.start, ws)
               /\ ws \notin manager.broken
               /\ manager.handlers[ws] = "open" ) =>
                 Times(ws, manager.event) = 1
      /\ \A ws \in Sockets :
           manager.failed[ws] # 0 =>
             /\ ~InList(manager.active_connections, ws)
             /\ \A k \in 1..Len(manager.received[ws]) :
                  manager.received[ws][k] < manager.failed[ws]

\* ============================================================ uploads
\* Several POST /upload requests in progress at once. Each is a coroutine
\* that gives the event loop up only inside update_progress, at the await of
\* a send_json: between two such awaits it runs alone, and with no listener
\* connected it runs from its first line to its last. While a send is in
\* flight the other uploads and the /ws/progress handlers run. The splitter
\* is the code's own (LANGCHAIN_AVAILABLE = FALSE); the sleeps of safe_encode
\* (141) are further awaits and are not modelled.

MaxRuns == 2       \* uploads in one behaviour

Runs == 1..MaxRuns

NoRun ==
    [pc |-> "none", stage |-> "none", i |-> 0, ws |-> 0, file |-> NoFile,
     encode_ok |-> TRUE, file_hash |-> 0, metadata |-> NoMeta,
     chunks |-> <<>>, dim |-> 0, metadatas |-> <<>>, added |-> {},
     error |-> "none"]

\* process_file_with_progress raises `kind`
Raised(g, kind) == [g EXCEPT !.run.error = kind]

\* What a coroutine does between the update_progress call of `stage` and
\* the next one: process_file_with_progress after each of its stages
\* (236-318), upload's handler after its "error" event (489-490).
Work(stage, g) ==
    LET run == g.run IN
    CASE stage = "validating" ->
           LET file_hash == get_file_hash(run.file.content) IN
           IF existsByHash(g.store, file_hash)
           THEN Raised(g, "File already indexed")
           ELSE [g EXCEPT !.run.file_hash = file_hash]
      [] stage = "metadata" ->
           [g EXCEPT !.run.metadata =
               extract_file_metadata(run.file.content, run.file.filename)]
      [] stage = "parsing" ->
           IF Ext(run.file.filename) \notin SupportedExt
           THEN Raised(g, "Unsupported file type")
           ELSE IF ~Readable(run.file.content)
           THEN Raised(g, "parser error")
           ELSE IF Blank(run.file.content)
           THEN Raised(g, "No readable text found")
           ELSE g
      [] stage = "chunking" ->
           LET chunks == FallbackSplit(run.file.content) IN
           IF chunks = <<>>
           THEN Raised(g, "No chunks created")
           ELSE [g EXCEPT !.run.chunks = chunks]
      [] stage = "embedding" ->
           IF ~run.encode_ok
           THEN Raised(g, "Embedding failed after retries")
           ELSE [g EXCEPT !.run.dim = Dim(current_embedding_model)]
      [] stage = "preparing" ->
           [g EXCEPT !.run.metadatas =
               [k \in 1..Len(run.chunks) |->
                   [filename |-> run.file.filename,
                    file_hash |-> run.file_hash,
                    title |-> run.metadata.title,
                    author |-> run.metadata.author]]]
      [] stage = "storing" ->
           LET ids == FreshIds(StoreIds(g.store), Len(run.chunks), 1) IN
           [g EXCEPT !.store = collection_add(g.store, ids, run.dim,
                                              run.chunks, run.metadatas),
                     !.run.added = { ids[k] : k \in 1..Len(ids) }]
      [] stage = "complete" ->
           [g EXCEPT !.log = log_upload(load_log(log_decodable, g.log),
                                        run.file.filename, Len(run.chunks),
                                        run.metadata, run.file_hash),
                     !.run.pc = "returned"]
      [] stage = "error" ->
           [g EXCEPT !.run.pc = "failed"]

\* update_progress(stage) is called: the for loop takes the first listener
\* of active_connections and awaits its send, or ends at once on an empty
\* list, and then the coroutine goes on to its next update_progress call
RECURSIVE Broadcast(_, _, _)
Broadcast(stage, g, active_connections) ==
    IF active_connections # <<>>
    THEN [g EXCEPT !.run.pc = "sending", !.run.stage = stage, !.run.i = 1,
                   !.run.ws = active_connections[1]]
    ELSE LET w == Work(stage, g) IN
         IF w.run.pc \in {"returned", "failed"}
         THEN [w EXCEPT !.run.stage = stage, !.run.i = 0, !.run.ws = 0]
         ELSE IF w.run.error # "none"
         THEN Broadcast("error", w, active_connections)
         ELSE Broadcast(NextStage(stage), w, active_connections)

\* the for loop of update_progress after a send: the next listener of the
\* list as it is now, or the end of the loop and what follows it
LoopOn(g, active_connections) ==
    IF g.run.i < Len(active_connections)
    THEN [g EXCEPT !.run.ws = active_connections[g.run.i + 1],
                   !.run.i = @ + 1]
    ELSE LET w == Work(g.run.stage, g) IN
         IF w.run.pc \in {"returned", "failed"}
         THEN [w EXCEPT !.run.i = 0, !.run.ws = 0]
         ELSE IF w.run.error # "none"
         THEN Broadcast("error", w, active_connections)
         ELSE Broadcast(NextStage(g.run.stage), w, active_connections)

\* upload (473-483) is called with one of ServerFiles; outs tells which of
\* the attempts of safe_encode will succeed
RunUpload(r) ==
    /\ runs[r].pc = "none"
    /\ \A q \in 1..(r - 1) : runs[q].pc # "none"
    /\ \E file \in ServerFiles : \E outs \in [1..max_retries -> BOOLEAN] :
         LET g == Broadcast("validating",
                            [run |-> [NoRun EXCEPT
                                        !.file = file,
                                        !.encode_ok = safe_encode(outs).ok],
                             store |-> store, log |-> log],
                            manager.active_connections)
         IN  /\ runs' = [runs EXCEPT ![r] = g.run]
             /\ store' = g.store
             /\ log' = g.log
    /\ UNCHANGED <<LANGCHAIN_AVAILABLE, current_embedding_model, pc, caller,
                   cur, loc, batch, events, trace, pre, call, resp, qs,
                   adminVars, enc, chat, manager>>

\* The send_json upload r awaits ends. It went through, or it raised and
\* the except clause calls manager.disconnect (124-125): the listener is
\* removed, or list.remove raises ValueError because it is in the list no
\* more, and the exception leaves update_progress for upload's handler
\* (487-490), or leaves that handler when it comes from the "error" event.
RunSendEnd(r) ==
    /\ runs[r].pc = "sending"
    /\ LET run == runs[r]
           g == [run |-> run, store |-> store, log |-> log]
           conns == manager.active_connections
           out ==
             IF run.ws \notin manager.broken
             THEN [g |-> LoopOn(g, conns), conns |-> conns]
             ELSE IF InList(conns, run.ws)
             THEN [g |-> LoopOn(g, Remove(conns, run.ws)),
                   conns |-> Remove(conns, run.ws)]
             ELSE IF run.stage = "error"
             THEN [g |-> [g EXCEPT !.run.pc = "failed", !.run.i = 0,
                                   !.run.ws = 0, !.run.error = "ValueError"],
                   conns |-> conns]
             ELSE [g |-> Broadcast("error", Raised(g, "ValueError"), conns),
                   conns |-> conns]
       IN  /\ runs' = [runs EXCEPT ![r] = out.g.run]
           /\ store' = out.g.store
           /\ log' = out.g.log
           /\ manager' = [manager EXCEPT !.active_connections = out.conns]
    /\ UNCHANGED <<LANGCHAIN_AVAILABLE, current_embedding_model, pc, caller,
                   cur, loc, batch, events, trace, pre, call, resp, qs,
                   adminVars, enc, chat>>

InitUploads ==
    /\ HandlersOff
    /\ AdminIdle
    /\ enc = NoEnc
    /\ chat = NoChat
    /\ manager = [pc |-> "idle", active_connections |-> <<>>,
                  handlers |-> [ws \in Sockets |-> "none"], broken |-> {},
                  event |-> 0, i |-> 0, ws |-> 0, start |-> <<>>,
                  ended |-> "none",
                  received |-> [ws \in Sockets |-> <<>>],
                  failed |-> [ws \in Sockets |-> 0]]
    /\ runs = [r \in Runs |-> NoRun]

NextUploads ==
    \/ \E r \in Runs : RunUpload(r)
    \/ \E r \in Runs : RunSendEnd(r)
    \/ \E ws \in Sockets : Connect(ws)
    \/ \E ws \in Sockets : PeerGone(ws)
    \/ \E ws \in Sockets : HandlerDisconnect(ws)

SpecUploads == InitUploads /\ [][NextUploads]_vars

\* C23: of the uploads in progress side by side, at most one adds chunks of
\* a given content: no two runs that have written to the collection have the
\* same file_hash.
C23_OneRunPerContent ==
    runs # NoRuns =>
      \A r, q \in Runs :
        ( /\ r # q
          /\ runs[r].added # {}
          /\ runs[q].added # {} ) =>
            runs[r].file_hash # runs[q].file_hash

\* C24: update_progress never raises (no listener is removed a second time)
\* and an upload that has added its chunks does not fail: once returned, its
\* entry is in the log.
C24_ProgressNeverFails ==
    runs # NoRuns =>
      \A r \in Runs :
        /\ runs[r].error # "ValueError"
        /\ runs[r].added # {} =>
             /\ runs[r].pc # "failed"
             /\ runs[r].pc = "returned" =>
                  \E k \in 1..Len(log) : log[k].file_hash = runs[r].file_hash

====
